---- MODULE Spec2Model ----
(***************************************************************************)
(* Model of the live data engine of crypto-trading-app                     *)
(* (internal/services/data_service.go, internal/models, the handlers).     *)
(*                                                                         *)
(* Numbers.  Prices and volumes are float64 in the program; the model      *)
(* keeps them as integers (one unit = one quote-currency unit) and every   *)
(* multiplication by a factor is a floor division, written so that no      *)
(* intermediate product leaves 32 bits.  A draw of secureFloat64 is kept   *)
(* in thousandths: 0 .. 999 stands for [0,1), and 500 for the fallback 0.5.*)
(* Times are Unix seconds (Time fields are milliseconds as in the code);   *)
(* the epoch is moved so that milliseconds fit in 32 bits.                 *)
(***************************************************************************)
EXTENDS Integers, Sequences, FiniteSets, TLC

VARIABLES
    TradingPairs,   \* the keys of s.TradingPairs, the registry map
    LastPrice,      \* pair.LastPrice, per symbol
    PriceChange,    \* pair.PriceChange, per symbol, in hundredths of a percent
    CandleData,     \* pair.CandleData, per symbol: the closed-candle history
    LastCandle,     \* pair.LastCandle, per symbol
    Subscribers,    \* pair.Subscribers, per symbol: the keys of the map
    Mutex,          \* pair.Mutex, per symbol: [w, r, ww]
    pc,             \* position of the task that works on the symbol
    tickKind,       \* which select case the simulator is executing
    currentCandle,  \* SimulateTradingData's local currentCandle
    roundedTime,    \* the candle case's local roundedTime (seconds)
    genNow,         \* GenerateInitialCandleData's local now (seconds)
    update,         \* BroadcastUpdate's local update (the payload)
    bcPending,      \* map entries the range loop of BroadcastUpdate has yet to reach
    bcTarget,       \* the conn whose WriteJSON is in progress
    bcStart,        \* the subscriber set when the running broadcast took the lock
    bcLog,          \* the sends of the running (or last) broadcast, in order
    closed,         \* conns on which Close() was called
    call,           \* the registry call each handler goroutine is executing
    ret,            \* what the handler goroutine's last call returned
    events,         \* price ticks taken and registry calls begun (bounded)
    request,        \* the GetCandleData call each caller goroutine is executing
    result,         \* the slice GetCandleData built for (returned to) the caller
    response,       \* the error GetCandleData returned and the HTTP status sent
    stopped,        \* pair.StopChan is closed, per symbol
    proc            \* the process: main serves, shuts down, has returned

vars == << TradingPairs, LastPrice, PriceChange, CandleData, LastCandle, Subscribers, Mutex,
           pc, tickKind, currentCandle, roundedTime, genNow, update, bcPending,
           bcTarget, bcStart, bcLog, closed, call, ret, events,
           request, result, response, stopped, proc >>

\* the state of the callers of GetCandleData and of the shutdown
envVars == << request, result, response, stopped, proc >>

----------------------------------------------------------------------------
(* Program constants *)

maxCandleCount == 288
timestampMultiplier == 1000
defaultVolume == 50
maxVolumeVariation == 150
smallVolumeVariation == 20
minutesPerCandle == 5
hoursPerDay == 24
demoIntervalSeconds == 10
percentMultiplier == 100
defaultRandomValue == 500
btcInitialPrice == 95000
ethInitialPrice == 3500

(* Bounds of the model *)

MaxEvents == 2       \* price ticks taken plus registry calls begun
MaxClockSteps == 1   \* time.Now() reads StartNow + k * ClockStep, k <= MaxClockSteps
MaxSeed == 1         \* random streams 0 .. MaxSeed offered to the bootstrap
StartNow == 86707    \* the earliest wall-clock reading (seconds)

\* Any reading may follow any other: the wall clock advances and may be set
\* back between two reads.
ClockStep == demoIntervalSeconds \div 2
ClockValues == {StartNow + k * ClockStep : k \in 0..MaxClockSteps}

\* The symbols the state is indexed by, the registered instruments a behaviour
\* follows (the instruments share no state: each has its own lock, history,
\* subscriber map and simulator goroutine), and a symbol that is never
\* registered.
Symbols == {"BTCUSDT", "ETHUSDT"}
InitSymbols == {"BTCUSDT"}
UnknownSymbol == "DOGEUSDT"
Conns == {"c1", "c2"}
Handlers == {"h1"}
NoConn == "none"

\* secureFloat64: n / 2^53 for a uniform n, or 0.5 when the entropy source fails.
DrawSeq == << 0, defaultRandomValue, 999 >>
Draws == {DrawSeq[i] : i \in 1..Len(DrawSeq)}

\* secureFloat64, lines 83-94: n / 2^53, or defaultRandomValue when rand.Int
\* returns an error (failed); the error is logged and not returned
secureFloat64(failed, n) == IF failed THEN defaultRandomValue ELSE n

initialPrice(s) == IF s = "BTCUSDT" THEN btcInitialPrice ELSE ethInitialPrice

----------------------------------------------------------------------------
(* Data *)

Candle(t, o, h, l, c, v) ==
    [Time |-> t, Open |-> o, High |-> h, Low |-> l, Close |-> c, Volume |-> v]

ZeroCandle == Candle(0, 0, 0, 0, 0, 0)

Max(a, b) == IF a >= b THEN a ELSE b
Min(a, b) == IF a <= b THEN a ELSE b

Last(q) == q[Len(q)]

\* x * (1 + num/den) and x * (1 - num/den), rounded down
ScaleUp(x, num, den) == x + (x * num) \div den
ScaleDown(x, num, den) == x - (x * num) \div den

Pow3(k) == IF k = 0 THEN 1 ELSE IF k = 1 THEN 3 ELSE IF k = 2 THEN 9
           ELSE IF k = 3 THEN 27 ELSE IF k = 4 THEN 81 ELSE 243

\* The k-th draw (k = 0..5) made for candle i by random stream seed.  The six
\* draws of a candle are the base-3 digits of seed + i, so one bootstrap run
\* meets every combination of the draws that shape a candle.
CandleDraw(seed, i, k) == DrawSeq[(((seed + i) \div Pow3(k)) % 3) + 1]

FloorTo(t, step) == t - (t % step)

----------------------------------------------------------------------------
(* GenerateInitialCandleData *)

\* the start of the current 5-minute interval, minus 24 hours (seconds)
GenStartTime(nowSec) ==
    FloorTo(nowSec, minutesPerCandle * 60) - hoursPerDay * 3600

\* basePrice * (secureFloat64()*0.04 - 0.02)
GenPriceChange(basePrice, u) == (basePrice * (u - 500)) \div 25000

\* basePrice * (0.995 + secureFloat64()*0.01)
GenOpenClose(basePrice, u) == basePrice + (basePrice * (u - 500)) \div 100000

\* math.Max(open, close) * (1.0 + secureFloat64()*0.005)
GenHigh(openPrice, closePrice, u) ==
    ScaleUp(Max(openPrice, closePrice), u, 200000)

\* GenLow taking the larger of open and close, as GenHigh does
GenLowOfMax(openPrice, closePrice, u) ==
    ScaleDown(Max(openPrice, closePrice), 1000 + u, 200000)

\* math.Min(open, close) * (0.995 - secureFloat64()*0.005)
GenLow(openPrice, closePrice, u) ==
    ScaleDown(Min(openPrice, closePrice), 1000 + u, 200000)

\* defaultVolume + secureFloat64()*maxVolumeVariation
GenVolume(u) == defaultVolume + (u * maxVolumeVariation) \div 1000

\* candle i of the history, from the base price already stepped for it
GenCandle(basePrice, candleTime, seed, i) ==
    LET openPrice  == GenOpenClose(basePrice, CandleDraw(seed, i, 1))
        closePrice == GenOpenClose(basePrice, CandleDraw(seed, i, 2))
    IN  Candle(candleTime * timestampMultiplier,
               openPrice,
               GenHigh(openPrice, closePrice, CandleDraw(seed, i, 3)),
               GenLow(openPrice, closePrice, CandleDraw(seed, i, 4)),
               closePrice,
               GenVolume(CandleDraw(seed, i, 5)))

\* The for loop of lines 134-163 over candles lo .. hi-1: the candles it
\* appends and the base price it leaves.  The range is split in halves so that
\* the evaluation stays shallow; the candles are those of the sequential loop.
RECURSIVE GenLoop(_, _, _, _, _)
GenLoop(lo, hi, basePrice, startTime, seed) ==
    IF hi = lo THEN [candles |-> << >>, base |-> basePrice]
    ELSE IF hi = lo + 1
    THEN LET b == basePrice + GenPriceChange(basePrice, CandleDraw(seed, lo, 0))
         IN  [candles |-> << GenCandle(b, startTime + lo * minutesPerCandle * 60,
                                       seed, lo) >>,
              base |-> b]
    ELSE LET mid == (lo + hi) \div 2
             left == GenLoop(lo, mid, basePrice, startTime, seed)
             right == GenLoop(mid, hi, left.base, startTime, seed)
         IN  [candles |-> left.candles \o right.candles, base |-> right.base]

\* basePrice := pair.LastPrice * basePercentage
GenBasePrice(lastPrice) == (lastPrice * 95) \div 100

\* the history GenerateInitialCandleData writes
GenCandles(lastPrice, nowSec, seed) ==
    GenLoop(0, maxCandleCount, GenBasePrice(lastPrice), GenStartTime(nowSec),
            seed).candles

\* GenHistory appending to the slice it finds
GenHistoryAppending(prev, lastPrice, nowSec, seed) ==
    prev \o GenCandles(lastPrice, nowSec, seed)

\* pair.CandleData after lines 128-163, when it was prev before the call:
\* line 128 makes a new empty slice and the loop appends to it
GenHistory(prev, lastPrice, nowSec, seed) == GenCandles(lastPrice, nowSec, seed)

----------------------------------------------------------------------------
(* The simulator's candle arithmetic *)

\* the start of the current 10-second demo interval (seconds)
RoundedTime(nowSec) == FloorTo(nowSec, demoIntervalSeconds)

\* RealtimeChange without the subtraction of realtimePriceVariationMin
RealtimeChangeUpOnly(lastPrice, u) == (lastPrice * u) \div 250000

\* pair.LastPrice * (secureFloat64()*0.004 - 0.002)
RealtimeChange(lastPrice, u) == (lastPrice * (u - 500)) \div 250000

\* UpdateCandle without the assignment of Close
UpdateCandleStaleClose(cur, lastPrice, u) ==
    [cur EXCEPT !.High = IF lastPrice > cur.High THEN lastPrice ELSE cur.High,
                !.Low = IF lastPrice < cur.Low THEN lastPrice ELSE cur.Low,
                !.Volume = cur.Volume + (u * smallVolumeVariation) \div 1000]

\* UpdateCandle that also moves the open to the new price
UpdateCandleReopens(cur, lastPrice, u) ==
    [cur EXCEPT !.Open = lastPrice,
                !.High = IF lastPrice > cur.High THEN lastPrice ELSE cur.High,
                !.Low = IF lastPrice < cur.Low THEN lastPrice ELSE cur.Low,
                !.Close = lastPrice,
                !.Volume = cur.Volume + (u * smallVolumeVariation) \div 1000]

\* the price case's update of currentCandle
UpdateCandle(cur, lastPrice, u) ==
    [cur EXCEPT !.High = IF lastPrice > cur.High THEN lastPrice ELSE cur.High,
                !.Low = IF lastPrice < cur.Low THEN lastPrice ELSE cur.Low,
                !.Close = lastPrice,
                !.Volume = cur.Volume + (u * smallVolumeVariation) \div 1000]

\* (pair.LastPrice/pair.CandleData[0].Open - 1) * percentMultiplier,
\* in hundredths of a percent
PercentChange(lastPrice, firstOpen) ==
    (lastPrice * percentMultiplier * 100) \div firstOpen - percentMultiplier * 100

\* NewPriceChange computed against the newest history entry
NewPriceChangeAgainstNewest(h, lastPrice, old) ==
    IF Len(h) > 0 THEN PercentChange(lastPrice, Last(h).Open) ELSE old

\* lines 244-248: pair.PriceChange after a price tick that found history h and
\* left lastPrice; it is computed against h[0], and kept when h is empty
NewPriceChange(h, lastPrice, old) ==
    IF Len(h) > 0 THEN PercentChange(lastPrice, h[1].Open) ELSE old

\* TrimHistory without the trim
TrimHistoryKeepsAll(h) == h

\* TrimHistory keeping the first maxCandleCount candles
TrimHistoryDropsNewest(h) ==
    IF Len(h) > maxCandleCount THEN SubSeq(h, 1, maxCandleCount) ELSE h

\* keep only the last maxCandleCount candles
TrimHistory(h) ==
    IF Len(h) > maxCandleCount
    THEN SubSeq(h, Len(h) - maxCandleCount + 1, Len(h))
    ELSE h

\* SaveCandle without the guard on the timestamp
SaveCandleAlways(h, cur) == TrimHistory(Append(h, cur))

\* SaveCandle writing the current candle over the newest entry
SaveCandleOverLast(h, cur) ==
    IF Len(h) = 0 THEN << cur >> ELSE [h EXCEPT ![Len(h)] = cur]

\* SaveCandle that also appends a candle with the newest entry's timestamp
SaveCandleNotOlder(h, cur) ==
    IF Len(h) = 0 \/ cur.Time >= Last(h).Time
    THEN TrimHistory(Append(h, cur))
    ELSE h

\* save the current candle to history, if it is newer than the newest entry
SaveCandle(h, cur) ==
    IF Len(h) = 0 \/ cur.Time > Last(h).Time
    THEN TrimHistory(Append(h, cur))
    ELSE h

\* NewCandle with Low left at the zero value
NewCandleLowUnset(candleTime, lastPrice, u) ==
    Candle(candleTime * timestampMultiplier, lastPrice, lastPrice, 0,
           lastPrice, defaultVolume + (u * smallVolumeVariation) \div 1000)

\* the new current candle: flat at the last price
NewCandle(candleTime, lastPrice, u) ==
    Candle(candleTime * timestampMultiplier, lastPrice, lastPrice, lastPrice,
           lastPrice, defaultVolume + (u * smallVolumeVariation) \div 1000)

\* InitialCurrentCandle taking the oldest history entry
InitialCurrentCandleOldest(h, lastPrice, nowSec) ==
    IF Len(h) > 0 THEN h[1]
    ELSE Candle(RoundedTime(nowSec) * timestampMultiplier, lastPrice, lastPrice,
                lastPrice, lastPrice, defaultVolume)

\* lines 192-214: the last history entry, or a flat candle at the last price
InitialCurrentCandle(h, lastPrice, nowSec) ==
    IF Len(h) > 0 THEN Last(h)
    ELSE Candle(RoundedTime(nowSec) * timestampMultiplier, lastPrice, lastPrice,
                lastPrice, lastPrice, defaultVolume)

\* NeedNewCandle that also holds when the bucket is the current candle's
NeedNewCandleSameBucket(rounded, cur) == rounded * timestampMultiplier >= cur.Time

\* NeedNewCandle that holds for every bucket but the current candle's
NeedNewCandleOtherBucket(rounded, cur) == rounded * timestampMultiplier # cur.Time

\* line 264: the bucket that holds now starts after the current candle
NeedNewCandle(rounded, cur) == rounded * timestampMultiplier > cur.Time

----------------------------------------------------------------------------
(* sync.RWMutex *)

FreeMutex == [w |-> "none", r |-> {}, ww |-> {}]

\* a Lock that does not wait for the readers
CanLockDespiteReaders(m) == m.w = "none"

CanLock(m) == m.w = "none" /\ m.r = {}
\* a reader waits for the writer that holds the lock and for a pending one
CanRLock(m) == m.w = "none" /\ m.ww = {}

Locked(m, id) == [m EXCEPT !.w = id, !.ww = @ \ {id}]
Unlocked(m) == [m EXCEPT !.w = "none"]
\* an RLock that registers no reader
RLockedUnregistered(m, id) == m
RLocked(m, id) == [m EXCEPT !.r = @ \cup {id}]
\* an RUnlock that releases nothing
RUnlockedNever(m, id) == m

\* an RUnlock that releases every reader's hold
RUnlockedAll(m, id) == [m EXCEPT !.r = {}]
RUnlocked(m, id) == [m EXCEPT !.r = @ \ {id}]
Pending(m, id) == [m EXCEPT !.ww = @ \cup {id}]

----------------------------------------------------------------------------
(* The subscriber map *)

\* pair.Subscribers[conn] = true
MapSet(subs, conn) == subs \cup {conn}
\* delete(pair.Subscribers, conn)
MapDelete(subs, conn) == subs \ {conn}

NoCall == [op |-> "none", sym |-> "none", conn |-> NoConn, st |-> "none"]
NoUpdate == [symbol |-> "none", lastPrice |-> 0, priceChange |-> 0,
             lastCandle |-> ZeroCandle]

----------------------------------------------------------------------------
(* Errors and the callers of GetCandleData *)

\* the goroutines that call GetCandleData (GetCandlesHandler runs one per
\* request)
Callers == {"g1", "g2"}

\* the package's sentinel, returned by AddSubscriber and RemoveSubscriber
ErrTradingPairNotFound == "ErrTradingPairNotFound"
\* the value GetCandleData allocates at line 334 with errors.New: another
\* error value with the same kind of message
GetCandleDataError == "errors.New(trading pair not found)"

\* errors.Is on values that wrap nothing: identity
ErrorsIs(err, target) == err = target

StatusOK == 200
StatusNotFound == 404
StatusInternalServerError == 500

\* GetCandlesHandler, lines 64-75: the status that answers err
HttpStatus(err) ==
    IF err = "nil" THEN StatusOK
    ELSE IF ErrorsIs(err, ErrTradingPairNotFound) THEN StatusNotFound
    ELSE StatusInternalServerError

NoRequest == [sym |-> "none", st |-> "idle"]
NoResponse == [err |-> "none", status |-> 0]

\* a copy that misses the newest entry
CopyOfButLast(h) == [i \in 1..(Len(h) - 1) |-> h[i]]

\* make([]models.CandleData, len(h)) followed by copy(result, h)
CopyOf(h) == [i \in 1..Len(h) |-> h[i]]

----------------------------------------------------------------------------
(* The state after NewDataService and the NewTradingPair calls of            *)
(* InitializeTradingPairs (lines 99-103)                                     *)

Init ==
    /\ TradingPairs = InitSymbols
    /\ LastPrice = [s \in Symbols |-> initialPrice(s)]
    /\ PriceChange = [s \in Symbols |-> 0]
    /\ CandleData = [s \in Symbols |-> << >>]
    /\ LastCandle = [s \in Symbols |-> ZeroCandle]
    /\ Subscribers = [s \in Symbols |-> {}]
    /\ Mutex = [s \in Symbols |-> FreeMutex]
    /\ pc = [s \in Symbols |-> "new"]
    /\ tickKind = [s \in Symbols |-> "none"]
    /\ currentCandle = [s \in Symbols |-> ZeroCandle]
    /\ roundedTime = [s \in Symbols |-> 0]
    /\ genNow = [s \in Symbols |-> 0]
    /\ update = [s \in Symbols |-> NoUpdate]
    /\ bcPending = [s \in Symbols |-> {}]
    /\ bcTarget = [s \in Symbols |-> NoConn]
    /\ bcStart = [s \in Symbols |-> {}]
    /\ bcLog = [s \in Symbols |-> << >>]
    /\ closed = {}
    /\ call = [h \in Handlers |-> NoCall]
    /\ ret = [h \in Handlers |-> "none"]
    /\ events = 0
    /\ request = [g \in Callers |-> NoRequest]
    /\ result = [g \in Callers |-> << >>]
    /\ response = [g \in Callers |-> NoResponse]
    /\ stopped = [s \in Symbols |-> FALSE]
    /\ proc = "serving"

----------------------------------------------------------------------------
(* InitializeTradingPairs and GenerateInitialCandleData *)

InitDone == \A s \in TradingPairs : pc[s] \notin {"new", "main_gen"}

\* The for loop of InitializeTradingPairs reaches pair s (map order is
\* arbitrary) and calls GenerateInitialCandleData: lines 115-126, the clock is
\* read and the exclusive lock taken.
InitializeNext(s) ==
    /\ pc[s] = "new"
    /\ \A t \in TradingPairs : pc[t] # "main_gen"
    /\ CanLock(Mutex[s])
    /\ Mutex' = [Mutex EXCEPT ![s] = Locked(@, "sim")]
    /\ \E t \in ClockValues : genNow' = [genNow EXCEPT ![s] = t]
    /\ pc' = [pc EXCEPT ![s] = "main_gen"]
    /\ UNCHANGED << envVars, TradingPairs, LastPrice, PriceChange, CandleData, LastCandle, Subscribers,
                    tickKind, currentCandle, roundedTime, update, bcPending,
                    bcTarget, bcStart, bcLog, closed, call, ret, events >>

\* Lines 128-171, the body of GenerateInitialCandleData under the exclusive
\* lock.  When InitializeTradingPairs made the call it then starts the
\* simulator goroutine.
GenerateInitialCandleData(s) ==
    /\ pc[s] \in {"main_gen", "sim_gen"}
    /\ Mutex[s].w = "sim"
    /\ \E seed \in 0..MaxSeed :
         LET h == GenHistory(CandleData[s], LastPrice[s], genNow[s], seed) IN
         /\ CandleData' = [CandleData EXCEPT ![s] = h]
         /\ LastCandle' = [LastCandle EXCEPT ![s] =
                             IF Len(h) > 0 THEN Last(h) ELSE @]
         /\ LastPrice' = [LastPrice EXCEPT ![s] =
                             IF Len(h) > 0 THEN Last(h).Close ELSE @]
    /\ Mutex' = [Mutex EXCEPT ![s] = Unlocked(@)]
    /\ pc' = [pc EXCEPT ![s] = IF pc[s] = "main_gen" THEN "sim_check"
                               ELSE "sim_init"]
    /\ genNow' = [genNow EXCEPT ![s] = 0]
    /\ UNCHANGED << envVars, TradingPairs, PriceChange, Subscribers, tickKind, currentCandle,
                    roundedTime, update, bcPending, bcTarget, bcStart, bcLog,
                    closed, call, ret, events >>

----------------------------------------------------------------------------
(* SimulateTradingData *)

\* Lines 181-190: hasData is read under the shared lock; without data the
\* generator is called (it reads the clock and takes the exclusive lock).
SimCheckData(s) ==
    /\ pc[s] = "sim_check"
    /\ CanRLock(Mutex[s])
    /\ IF Len(CandleData[s]) > 0
       THEN /\ pc' = [pc EXCEPT ![s] = "sim_init"]
            /\ UNCHANGED << genNow, Mutex >>
       ELSE /\ CanLock(Mutex[s])
            /\ Mutex' = [Mutex EXCEPT ![s] = Locked(@, "sim")]
            /\ \E t \in ClockValues : genNow' = [genNow EXCEPT ![s] = t]
            /\ pc' = [pc EXCEPT ![s] = "sim_gen"]
    /\ UNCHANGED << envVars, TradingPairs, LastPrice, PriceChange, CandleData, LastCandle, Subscribers,
                    tickKind, currentCandle, roundedTime, update, bcPending,
                    bcTarget, bcStart, bcLog, closed, call, ret, events >>

\* Lines 192-214: the current candle, read under the shared lock
SimInitCandle(s) ==
    /\ pc[s] = "sim_init"
    /\ CanRLock(Mutex[s])
    /\ \E t \in IF Len(CandleData[s]) > 0 THEN {StartNow} ELSE ClockValues :
         currentCandle' = [currentCandle EXCEPT ![s] =
                              InitialCurrentCandle(CandleData[s], LastPrice[s], t)]
    /\ pc' = [pc EXCEPT ![s] = "select"]
    /\ UNCHANGED << envVars, TradingPairs, LastPrice, PriceChange, CandleData, LastCandle, Subscribers,
                    Mutex, tickKind, roundedTime, genNow, update, bcPending,
                    bcTarget, bcStart, bcLog, closed, call, ret, events >>

\* case <-priceTicker.C, and line 225: the exclusive lock is taken
PriceTick(s) ==
    /\ pc[s] = "select"
    /\ events < MaxEvents
    /\ events' = events + 1
    /\ CanLock(Mutex[s])
    /\ Mutex' = [Mutex EXCEPT ![s] = Locked(@, "sim")]
    /\ pc' = [pc EXCEPT ![s] = "pt_body"]
    /\ tickKind' = [tickKind EXCEPT ![s] = "price"]
    /\ UNCHANGED << envVars, TradingPairs, LastPrice, PriceChange, CandleData, LastCandle, Subscribers,
                    currentCandle, roundedTime, genNow, update, bcPending,
                    bcTarget, bcStart, bcLog, closed, call, ret >>

\* Lines 226-249 (updatePriceAndCandle), under the exclusive lock
UpdatePriceAndCandle(s) ==
    /\ pc[s] = "pt_body"
    /\ Mutex[s].w = "sim"
    /\ \E u \in Draws, uv \in Draws :
         LET lp == LastPrice[s] + RealtimeChange(LastPrice[s], u)
             cc == UpdateCandle(currentCandle[s], lp, uv)
         IN  /\ LastPrice' = [LastPrice EXCEPT ![s] = lp]
             /\ currentCandle' = [currentCandle EXCEPT ![s] = cc]
             /\ LastCandle' = [LastCandle EXCEPT ![s] = cc]
             /\ PriceChange' = [PriceChange EXCEPT ![s] =
                    NewPriceChange(CandleData[s], lp, @)]
    /\ Mutex' = [Mutex EXCEPT ![s] = Unlocked(@)]
    /\ pc' = [pc EXCEPT ![s] = "bc_rlock"]
    /\ UNCHANGED << envVars, TradingPairs, CandleData, Subscribers, tickKind, roundedTime, genNow,
                    update, bcPending, bcTarget, bcStart, bcLog, closed, call,
                    ret, events >>

\* case <-candleTicker.C: lines 255-265.  The clock is read and rounded; with
\* no new interval the case ends, otherwise the exclusive lock is taken.
CandleTick(s) ==
    /\ pc[s] = "select"
    /\ \E t \in ClockValues :
         IF NeedNewCandle(RoundedTime(t), currentCandle[s])
         THEN /\ CanLock(Mutex[s])
              /\ Mutex' = [Mutex EXCEPT ![s] = Locked(@, "sim")]
              /\ roundedTime' = [roundedTime EXCEPT ![s] = RoundedTime(t)]
              /\ pc' = [pc EXCEPT ![s] = "ct_body"]
              /\ tickKind' = [tickKind EXCEPT ![s] = "candle"]
         ELSE UNCHANGED << Mutex, roundedTime, pc, tickKind >>
    /\ UNCHANGED << envVars, TradingPairs, LastPrice, PriceChange, CandleData, LastCandle, Subscribers,
                    currentCandle, genNow, update, bcPending, bcTarget, bcStart,
                    bcLog, closed, call, ret, events >>

\* Lines 267-291 (createNewCandle), under the exclusive lock
CreateNewCandle(s) ==
    /\ pc[s] = "ct_body"
    /\ Mutex[s].w = "sim"
    /\ CandleData' = [CandleData EXCEPT ![s] = SaveCandle(@, currentCandle[s])]
    /\ \E uv \in Draws :
         LET cc == NewCandle(roundedTime[s], LastPrice[s], uv)
         IN  /\ currentCandle' = [currentCandle EXCEPT ![s] = cc]
             /\ LastCandle' = [LastCandle EXCEPT ![s] = cc]
    /\ Mutex' = [Mutex EXCEPT ![s] = Unlocked(@)]
    /\ pc' = [pc EXCEPT ![s] = "bc_rlock"]
    /\ roundedTime' = [roundedTime EXCEPT ![s] = 0]
    /\ UNCHANGED << envVars, TradingPairs, LastPrice, PriceChange, Subscribers, tickKind, genNow,
                    update, bcPending, bcTarget, bcStart, bcLog, closed, call,
                    ret, events >>

----------------------------------------------------------------------------
(* BroadcastUpdate *)

\* a payload built before the tick changed the pair
PayloadStale(s) == [symbol |-> s, lastPrice |-> initialPrice(s),
                   priceChange |-> 0, lastCandle |-> ZeroCandle]

\* a payload that takes the newest history entry for the last candle
PayloadOldCandle(s) ==
    [symbol |-> s, lastPrice |-> LastPrice[s], priceChange |-> PriceChange[s],
     lastCandle |-> IF Len(CandleData[s]) > 0 THEN Last(CandleData[s])
                    ELSE LastCandle[s]]

\* lines 311-316: the payload, read under the shared lock
Payload(s) == [symbol |-> s, lastPrice |-> LastPrice[s],
               priceChange |-> PriceChange[s], lastCandle |-> LastCandle[s]]

\* a range that produces a key again
RangeRestKeeps(pending, conn) == pending

\* the entries a range over the map has yet to produce once it has produced
\* conn: each key is produced at most once, a deleted key never
RangeRest(pending, conn) == pending \ {conn}

\* AfterSend without the delete
AfterSendKeeps(subs, conn, ok) == subs

\* the map after a send to conn returned ok or an error
AfterSend(subs, conn, ok) == IF ok THEN subs ELSE MapDelete(subs, conn)

\* a simulator that returns when a send has failed
AfterWriteEndsOnError(ok) == IF ok THEN "bc_loop" ELSE "done"

\* where the simulator goes on when WriteJSON has returned: lines 321-326
\* handle the error inside the range loop, which continues
AfterWrite(ok) == "bc_loop"

\* lines 302-316: take the shared lock; return at once without subscribers,
\* otherwise build the payload and start the range loop
BroadcastBegin(s) ==
    /\ pc[s] = "bc_rlock"
    /\ CanRLock(Mutex[s])
    /\ IF Cardinality(Subscribers[s]) = 0
       THEN /\ pc' = [pc EXCEPT ![s] = "select"]
            /\ tickKind' = [tickKind EXCEPT ![s] = "none"]
            /\ UNCHANGED << Mutex, update, bcPending, bcStart, bcLog >>
       ELSE /\ Mutex' = [Mutex EXCEPT ![s] = RLocked(@, "sim")]
            /\ update' = [update EXCEPT ![s] = Payload(s)]
            /\ bcPending' = [bcPending EXCEPT ![s] = Subscribers[s]]
            /\ bcStart' = [bcStart EXCEPT ![s] = Subscribers[s]]
            /\ bcLog' = [bcLog EXCEPT ![s] = << >>]
            /\ pc' = [pc EXCEPT ![s] = "bc_loop"]
            /\ UNCHANGED tickKind
    /\ UNCHANGED << envVars, TradingPairs, LastPrice, PriceChange, CandleData, LastCandle, Subscribers,
                    currentCandle, roundedTime, genNow, bcTarget, closed, call,
                    ret, events >>

\* line 319-320: the loop produces the next conn and calls conn.WriteJSON
BroadcastSend(s) ==
    /\ pc[s] = "bc_loop"
    /\ \E conn \in bcPending[s] :
         /\ bcTarget' = [bcTarget EXCEPT ![s] = conn]
         /\ bcPending' = [bcPending EXCEPT ![s] = RangeRest(@, conn)]
    /\ pc' = [pc EXCEPT ![s] = "bc_write"]
    /\ UNCHANGED << envVars, TradingPairs, LastPrice, PriceChange, CandleData, LastCandle, Subscribers,
                    Mutex, tickKind, currentCandle, roundedTime, genNow, update,
                    bcStart, bcLog, closed, call, ret, events >>

\* lines 320-325: WriteJSON returns (when the peer lets it); on an error the
\* conn is closed and deleted from the map.  A closed conn only fails.
BroadcastSendReturn(s) ==
    /\ pc[s] = "bc_write"
    /\ \E ok \in BOOLEAN :
         /\ bcTarget[s] \in closed => ~ok
         /\ bcLog' = [bcLog EXCEPT ![s] =
                         Append(@, [conn |-> bcTarget[s], ok |-> ok])]
         /\ Subscribers' = [Subscribers EXCEPT ![s] = AfterSend(@, bcTarget[s], ok)]
         /\ closed' = IF ok THEN closed ELSE closed \cup {bcTarget[s]}
         /\ pc' = [pc EXCEPT ![s] = AfterWrite(ok)]
    /\ bcTarget' = [bcTarget EXCEPT ![s] = NoConn]
    /\ UNCHANGED << envVars, TradingPairs, LastPrice, PriceChange, CandleData, LastCandle, Mutex,
                    tickKind, currentCandle, roundedTime, genNow, update,
                    bcPending, bcStart, call, ret, events >>

\* the range loop is over: the deferred RUnlock runs and the case ends
BroadcastEnd(s) ==
    /\ pc[s] = "bc_loop"
    /\ bcPending[s] = {}
    /\ Mutex' = [Mutex EXCEPT ![s] = RUnlocked(@, "sim")]
    /\ update' = [update EXCEPT ![s] = NoUpdate]
    /\ bcStart' = [bcStart EXCEPT ![s] = {}]
    /\ bcLog' = [bcLog EXCEPT ![s] = << >>]
    /\ pc' = [pc EXCEPT ![s] = "select"]
    /\ tickKind' = [tickKind EXCEPT ![s] = "none"]
    /\ UNCHANGED << envVars, TradingPairs, LastPrice, PriceChange, CandleData, LastCandle, Subscribers,
                    currentCandle, roundedTime, genNow, bcPending, bcTarget,
                    closed, call, ret, events >>

----------------------------------------------------------------------------
(* AddSubscriber and RemoveSubscriber, called by handler goroutines once    *)
(* InitializeTradingPairs has returned and the server listens               *)

\* one lock taken for every instrument
MutexOfShared(sym) == "ETHUSDT"

\* the lock AddSubscriber and RemoveSubscriber take for symbol sym: the Mutex
\* field of the pair found under that key (each TradingPair has its own)
MutexOf(sym) == sym

\* a call begins: the symbol is looked up in s.TradingPairs
SubscriberCall(h, op) ==
    /\ InitDone
    /\ call[h].op = "none"
    /\ events < MaxEvents
    /\ events' = events + 1
    /\ \E sym \in TradingPairs \cup {UnknownSymbol}, conn \in Conns :
         IF sym \in TradingPairs
         THEN /\ call' = [call EXCEPT ![h] =
                     [op |-> op, sym |-> sym, conn |-> conn, st |-> "lock"]]
              /\ ret' = [ret EXCEPT ![h] = "none"]
         ELSE /\ ret' = [ret EXCEPT ![h] = "ErrTradingPairNotFound"]
              /\ UNCHANGED call
    /\ UNCHANGED << envVars, TradingPairs, LastPrice, PriceChange, CandleData, LastCandle, Subscribers,
                    Mutex, pc, tickKind, currentCandle, roundedTime, genNow,
                    update, bcPending, bcTarget, bcStart, bcLog, closed >>

AddSubscriberCall(h) == SubscriberCall(h, "add")
RemoveSubscriberCall(h) == SubscriberCall(h, "remove")

\* pair.Mutex.Lock() finds readers: the writer is pending and new readers wait
HandlerLockPending(h) ==
    /\ call[h].st = "lock"
    /\ Mutex[MutexOf(call[h].sym)].w = "none"
    /\ Mutex[MutexOf(call[h].sym)].r # {}
    /\ h \notin Mutex[MutexOf(call[h].sym)].ww
    /\ Mutex' = [Mutex EXCEPT ![MutexOf(call[h].sym)] = Pending(@, h)]
    /\ UNCHANGED << envVars, TradingPairs, LastPrice, PriceChange, CandleData, LastCandle, Subscribers,
                    pc, tickKind, currentCandle, roundedTime, genNow, update,
                    bcPending, bcTarget, bcStart, bcLog, closed, call, ret,
                    events >>

\* pair.Mutex.Lock() returns
HandlerLock(h) ==
    /\ call[h].st = "lock"
    /\ CanLock(Mutex[MutexOf(call[h].sym)])
    /\ Mutex' = [Mutex EXCEPT ![MutexOf(call[h].sym)] = Locked(@, h)]
    /\ call' = [call EXCEPT ![h].st = "body"]
    /\ UNCHANGED << envVars, TradingPairs, LastPrice, PriceChange, CandleData, LastCandle, Subscribers,
                    pc, tickKind, currentCandle, roundedTime, genNow, update,
                    bcPending, bcTarget, bcStart, bcLog, closed, ret, events >>

\* RemoveSubscriber replacing the map by an empty one
RemoveSubscriberMapReset(subs, conn) == {}

\* the map after the body of AddSubscriber / RemoveSubscriber
AddSubscriberMap(subs, conn) == MapSet(subs, conn)
RemoveSubscriberMap(subs, conn) == MapDelete(subs, conn)

\* lines 355-357 and 369-371, under the exclusive lock; returns nil
SubscriberBody(h, op) ==
    /\ call[h].st = "body"
    /\ call[h].op = op
    /\ Mutex[MutexOf(call[h].sym)].w = h
    /\ Subscribers' = [Subscribers EXCEPT ![call[h].sym] =
                          IF op = "add" THEN AddSubscriberMap(@, call[h].conn)
                          ELSE RemoveSubscriberMap(@, call[h].conn)]
    /\ Mutex' = [Mutex EXCEPT ![MutexOf(call[h].sym)] = Unlocked(@)]
    /\ call' = [call EXCEPT ![h] = NoCall]
    /\ ret' = [ret EXCEPT ![h] = "nil"]
    /\ UNCHANGED << envVars, TradingPairs, LastPrice, PriceChange, CandleData, LastCandle, pc, tickKind,
                    currentCandle, roundedTime, genNow, update, bcPending,
                    bcTarget, bcStart, bcLog, closed, events >>

AddSubscriber(h) == SubscriberBody(h, "add")
RemoveSubscriber(h) == SubscriberBody(h, "remove")

----------------------------------------------------------------------------
(* GetCandleData, called through GetCandlesHandler or by any other caller    *)
(* of the exported method once the pairs are registered                     *)

\* lines 331-335: the symbol is looked up; an unknown one is answered at once
GetCandleDataCall(g) ==
    /\ request[g].st = "idle"
    /\ events < MaxEvents
    /\ events' = events + 1
    /\ \E sym \in TradingPairs \cup {UnknownSymbol} :
         /\ request' = [request EXCEPT ![g] =
                [sym |-> sym,
                 st |-> IF sym \in TradingPairs THEN "rlock" ELSE "idle"]]
         /\ response' = [response EXCEPT ![g] =
                IF sym \in TradingPairs THEN NoResponse
                ELSE [err |-> GetCandleDataError,
                      status |-> HttpStatus(GetCandleDataError)]]
    /\ result' = [result EXCEPT ![g] = << >>]
    /\ UNCHANGED << TradingPairs, LastPrice, PriceChange, CandleData,
                    LastCandle, Subscribers, Mutex, pc, tickKind,
                    currentCandle, roundedTime, genNow, update, bcPending,
                    bcTarget, bcStart, bcLog, closed, call, ret, stopped,
                    proc >>

\* lines 337-342: the shared lock is taken and the history copied out
GetCandleDataCopy(g) ==
    /\ request[g].st = "rlock"
    /\ CanRLock(Mutex[request[g].sym])
    /\ Mutex' = [Mutex EXCEPT ![request[g].sym] = RLocked(@, g)]
    /\ result' = [result EXCEPT ![g] = CopyOf(CandleData[request[g].sym])]
    /\ request' = [request EXCEPT ![g].st = "copied"]
    /\ UNCHANGED << TradingPairs, LastPrice, PriceChange, CandleData,
                    LastCandle, Subscribers, pc, tickKind, currentCandle,
                    roundedTime, genNow, update, bcPending, bcTarget,
                    bcStart, bcLog, closed, call, ret, events, response,
                    stopped, proc >>

\* line 344 and the deferred RUnlock: the copy is returned with a nil error
GetCandleDataReturn(g) ==
    /\ request[g].st = "copied"
    /\ Mutex' = [Mutex EXCEPT ![request[g].sym] = RUnlocked(@, g)]
    /\ request' = [request EXCEPT ![g].st = "idle"]
    /\ response' = [response EXCEPT ![g] =
                       [err |-> "nil", status |-> HttpStatus("nil")]]
    /\ UNCHANGED << TradingPairs, LastPrice, PriceChange, CandleData,
                    LastCandle, Subscribers, pc, tickKind, currentCandle,
                    roundedTime, genNow, update, bcPending, bcTarget,
                    bcStart, bcLog, closed, call, ret, events, result,
                    stopped, proc >>

----------------------------------------------------------------------------

Next ==
    \/ \E s \in TradingPairs : InitializeNext(s)
    \/ \E s \in TradingPairs : GenerateInitialCandleData(s)
    \/ \E s \in TradingPairs : SimCheckData(s)
    \/ \E s \in TradingPairs : SimInitCandle(s)
    \/ \E s \in TradingPairs : PriceTick(s)
    \/ \E s \in TradingPairs : UpdatePriceAndCandle(s)
    \/ \E s \in TradingPairs : CandleTick(s)
    \/ \E s \in TradingPairs : CreateNewCandle(s)
    \/ \E s \in TradingPairs : BroadcastBegin(s)
    \/ \E s \in TradingPairs : BroadcastSend(s)
    \/ \E s \in TradingPairs : BroadcastSendReturn(s)
    \/ \E s \in TradingPairs : BroadcastEnd(s)
    \/ \E h \in Handlers : AddSubscriberCall(h)
    \/ \E h \in Handlers : RemoveSubscriberCall(h)
    \/ \E h \in Handlers : HandlerLockPending(h)
    \/ \E h \in Handlers : HandlerLock(h)
    \/ \E h \in Handlers : AddSubscriber(h)
    \/ \E h \in Handlers : RemoveSubscriber(h)

Spec == Init /\ [][Next]_vars

\* the same with the callers of GetCandleData
ApiNext ==
    \/ Next
    \/ \E g \in Callers : GetCandleDataCall(g)
    \/ \E g \in Callers : GetCandleDataCopy(g)
    \/ \E g \in Callers : GetCandleDataReturn(g)

ApiSpec == Init /\ [][ApiNext]_vars

\* the bootstrap, the simulators and the callers of GetCandleData, without
\* subscribers (every BroadcastUpdate returns at line 307)
ReadNext ==
    \/ \E s \in TradingPairs : InitializeNext(s)
    \/ \E s \in TradingPairs : GenerateInitialCandleData(s)
    \/ \E s \in TradingPairs : SimCheckData(s)
    \/ \E s \in TradingPairs : SimInitCandle(s)
    \/ \E s \in TradingPairs : PriceTick(s)
    \/ \E s \in TradingPairs : UpdatePriceAndCandle(s)
    \/ \E s \in TradingPairs : CandleTick(s)
    \/ \E s \in TradingPairs : CreateNewCandle(s)
    \/ \E s \in TradingPairs : BroadcastBegin(s)
    \/ \E g \in Callers : GetCandleDataCall(g)
    \/ \E g \in Callers : GetCandleDataCopy(g)
    \/ \E g \in Callers : GetCandleDataReturn(g)

ReadSpec == Init /\ [][ReadNext]_vars

----------------------------------------------------------------------------
(* The running system: InitializeTradingPairs has returned, every history   *)
(* is generated and every simulator goroutine is started (Spec reaches      *)
(* these states, see Started)                                              *)

\* the running system in which the conns subs are subscribed to every
\* registered instrument (by AddSubscriber calls that have returned)
LiveState(subs) ==
    /\ TradingPairs = InitSymbols
    /\ \E t \in ClockValues, seed \in 0..MaxSeed :
         CandleData = [s \in Symbols |->
                          IF s \in InitSymbols
                          THEN GenCandles(initialPrice(s), t, seed) ELSE << >>]
    /\ LastCandle = [s \in Symbols |->
                        IF s \in InitSymbols THEN Last(CandleData[s])
                        ELSE ZeroCandle]
    /\ LastPrice = [s \in Symbols |->
                       IF s \in InitSymbols THEN Last(CandleData[s]).Close
                       ELSE initialPrice(s)]
    /\ PriceChange = [s \in Symbols |-> 0]
    /\ Subscribers = [s \in Symbols |->
                         IF s \in InitSymbols THEN subs ELSE {}]
    /\ Mutex = [s \in Symbols |-> FreeMutex]
    /\ pc = [s \in Symbols |-> IF s \in InitSymbols THEN "sim_check" ELSE "new"]
    /\ tickKind = [s \in Symbols |-> "none"]
    /\ currentCandle = [s \in Symbols |-> ZeroCandle]
    /\ roundedTime = [s \in Symbols |-> 0]
    /\ genNow = [s \in Symbols |-> 0]
    /\ update = [s \in Symbols |-> NoUpdate]
    /\ bcPending = [s \in Symbols |-> {}]
    /\ bcTarget = [s \in Symbols |-> NoConn]
    /\ bcStart = [s \in Symbols |-> {}]
    /\ bcLog = [s \in Symbols |-> << >>]
    /\ closed = {}
    /\ call = [h \in Handlers |-> NoCall]
    /\ ret = [h \in Handlers |-> "none"]
    /\ events = 0
    /\ request = [g \in Callers |-> NoRequest]
    /\ result = [g \in Callers |-> << >>]
    /\ response = [g \in Callers |-> NoResponse]
    /\ stopped = [s \in Symbols |-> FALSE]
    /\ proc = "serving"

LiveInit == LiveState({})

\* two connections are subscribed when the behaviour starts
SubscribedInit == LiveState(Conns)

\* under Spec, a simulator that has just been started has the data of a
\* LiveInit state (handlers may already be at work)
Started ==
    \A s \in TradingPairs :
        pc[s] = "sim_check" =>
            /\ \E t \in ClockValues, seed \in 0..MaxSeed :
                 CandleData[s] = GenCandles(initialPrice(s), t, seed)
            /\ LastCandle[s] = Last(CandleData[s])
            /\ LastPrice[s] = Last(CandleData[s]).Close
            /\ PriceChange[s] = 0
            /\ currentCandle[s] = ZeroCandle

LiveNext ==
    \/ \E s \in TradingPairs : SimCheckData(s)
    \/ \E s \in TradingPairs : SimInitCandle(s)
    \/ \E s \in TradingPairs : PriceTick(s)
    \/ \E s \in TradingPairs : UpdatePriceAndCandle(s)
    \/ \E s \in TradingPairs : CandleTick(s)
    \/ \E s \in TradingPairs : CreateNewCandle(s)
    \/ \E s \in TradingPairs : BroadcastBegin(s)
    \/ \E s \in TradingPairs : BroadcastSend(s)
    \/ \E s \in TradingPairs : BroadcastSendReturn(s)
    \/ \E s \in TradingPairs : BroadcastEnd(s)
    \/ \E h \in Handlers : AddSubscriberCall(h)
    \/ \E h \in Handlers : RemoveSubscriberCall(h)
    \/ \E h \in Handlers : HandlerLockPending(h)
    \/ \E h \in Handlers : HandlerLock(h)
    \/ \E h \in Handlers : AddSubscriber(h)
    \/ \E h \in Handlers : RemoveSubscriber(h)

\* the steps the simulator goroutine of s takes by itself
SimStep(s) ==
    /\ s \in TradingPairs
    /\ \/ SimCheckData(s)
       \/ SimInitCandle(s)
       \/ UpdatePriceAndCandle(s)
       \/ CreateNewCandle(s)
       \/ BroadcastBegin(s)
       \/ BroadcastSend(s)
       \/ BroadcastEnd(s)

\* the steps of a handler goroutine inside a call
HandlerStep(h) == HandlerLock(h) \/ AddSubscriber(h) \/ RemoveSubscriber(h)

\* The scheduler runs every goroutine that can take a step.  Only the return
\* of a WriteJSON in progress depends on the peer, and nothing obliges it; the
\* tickers fire as the budget allows.
FairSpec ==
    /\ LiveInit
    /\ [][LiveNext]_vars
    /\ \A s \in Symbols : WF_vars(SimStep(s))
    /\ \A h \in Handlers : WF_vars(HandlerStep(h))

----------------------------------------------------------------------------
(* The stop signal.  No code of the repository closes pair.StopChan; the     *)
(* field is exported and CloseStopChan is its owner closing it.              *)

\* close(pair.StopChan)
CloseStopChan(s) ==
    /\ ~stopped[s]
    /\ stopped' = [stopped EXCEPT ![s] = TRUE]
    /\ UNCHANGED << TradingPairs, LastPrice, PriceChange, CandleData,
                    LastCandle, Subscribers, Mutex, pc, tickKind,
                    currentCandle, roundedTime, genNow, update, bcPending,
                    bcTarget, bcStart, bcLog, closed, call, ret, events,
                    request, result, response, proc >>

\* case <-pair.StopChan, lines 218-221: both tickers are stopped and the
\* goroutine returns.  The select takes this case when it is ready; when a
\* ticker is ready too the select chooses among the ready cases, so PriceTick
\* and CandleTick stay possible.
SimStop(s) ==
    /\ pc[s] = "select"
    /\ stopped[s]
    /\ pc' = [pc EXCEPT ![s] = "done"]
    /\ UNCHANGED << envVars, TradingPairs, LastPrice, PriceChange, CandleData,
                    LastCandle, Subscribers, Mutex, tickKind, currentCandle,
                    roundedTime, genNow, update, bcPending, bcTarget,
                    bcStart, bcLog, closed, call, ret, events >>

StopNext ==
    \/ LiveNext
    \/ \E s \in TradingPairs : CloseStopChan(s)
    \/ \E s \in TradingPairs : SimStop(s)

\* the steps the simulator goroutine of s takes by itself, the exit included
StopStep(s) == SimStep(s) \/ (s \in TradingPairs /\ SimStop(s))

StopSpec ==
    /\ LiveInit
    /\ [][StopNext]_vars
    /\ \A s \in Symbols : WF_vars(StopStep(s))
    /\ \A h \in Handlers : WF_vars(HandlerStep(h))

----------------------------------------------------------------------------
(* main: the shutdown (src/unnamed/part_003, lines 157-173)                 *)

\* <-quit: SIGINT or SIGTERM arrives
Quit ==
    /\ proc = "serving"
    /\ proc' = "shutting"
    /\ UNCHANGED << TradingPairs, LastPrice, PriceChange, CandleData,
                    LastCandle, Subscribers, Mutex, pc, tickKind,
                    currentCandle, roundedTime, genNow, update, bcPending,
                    bcTarget, bcStart, bcLog, closed, call, ret, events,
                    request, result, response, stopped >>

\* srv.Shutdown(ctx) returns, in time or after the 5 seconds, and main
\* returns: the process ends, and every goroutine with it
Exit ==
    /\ proc = "shutting"
    /\ proc' = "exited"
    /\ UNCHANGED << TradingPairs, LastPrice, PriceChange, CandleData,
                    LastCandle, Subscribers, Mutex, pc, tickKind,
                    currentCandle, roundedTime, genNow, update, bcPending,
                    bcTarget, bcStart, bcLog, closed, call, ret, events,
                    request, result, response, stopped >>

ShutdownNext ==
    \/ proc # "exited" /\ LiveNext
    \/ Quit
    \/ Exit

ShutdownSpec == LiveInit /\ [][ShutdownNext]_vars

----------------------------------------------------------------------------
(* Delivery to one subscriber *)

\* the endpoint whose sends succeed
Endpoint == "c1"

\* a WriteJSON to Endpoint in progress returns without error
EndpointSendReturn(s) ==
    /\ s \in TradingPairs
    /\ bcTarget[s] = Endpoint
    /\ BroadcastSendReturn(s)
    /\ Endpoint \notin closed'

\* FairSpec with two subscribers, in which moreover every send to Endpoint
\* returns; the sends to the other conn return or not
DeliverySpec ==
    /\ SubscribedInit
    /\ [][LiveNext]_vars
    /\ \A s \in Symbols : WF_vars(SimStep(s))
    /\ \A h \in Handlers : WF_vars(HandlerStep(h))
    /\ \A s \in Symbols : WF_vars(EndpointSendReturn(s))

----------------------------------------------------------------------------
(* GenerateInitialCandleData called again.  The method is exported; the     *)
(* program itself calls it only on an empty history.                        *)

\* A goroutine other than the simulator calls GenerateInitialCandleData on a
\* registered pair while the simulator waits in its select: it reads the
\* clock, takes the exclusive lock when it is free, runs lines 128-171 and
\* releases the lock.
RegenerateCandleData(s) ==
    /\ pc[s] = "select"
    /\ events < MaxEvents
    /\ events' = events + 1
    /\ CanLock(Mutex[s])
    /\ \E t \in ClockValues, seed \in 0..MaxSeed :
         LET h == GenHistory(CandleData[s], LastPrice[s], t, seed) IN
         /\ CandleData' = [CandleData EXCEPT ![s] = h]
         /\ LastCandle' = [LastCandle EXCEPT ![s] =
                             IF Len(h) > 0 THEN Last(h) ELSE @]
         /\ LastPrice' = [LastPrice EXCEPT ![s] =
                             IF Len(h) > 0 THEN Last(h).Close ELSE @]
    /\ UNCHANGED << envVars, TradingPairs, PriceChange, Subscribers, Mutex, pc,
                    tickKind, currentCandle, roundedTime, genNow, update,
                    bcPending, bcTarget, bcStart, bcLog, closed, call, ret >>

\* the bootstrap, the simulator followed through its start and its candle
\* ticks without subscribers, and the later calls
RegenNext ==
    \/ \E s \in TradingPairs : InitializeNext(s)
    \/ \E s \in TradingPairs : GenerateInitialCandleData(s)
    \/ \E s \in TradingPairs : SimCheckData(s)
    \/ \E s \in TradingPairs : SimInitCandle(s)
    \/ \E s \in TradingPairs : CandleTick(s)
    \/ \E s \in TradingPairs : CreateNewCandle(s)
    \/ \E s \in TradingPairs : BroadcastBegin(s)
    \/ \E s \in TradingPairs : RegenerateCandleData(s)

RegenSpec == Init /\ [][RegenNext]_vars

----------------------------------------------------------------------------
(* InitializeTradingPairs from its first line, with every symbol of Symbols *)
(* an instrument (the program registers five; they are handled alike)       *)

\* the order of the insertions at lines 99-103
PairOrder == << "BTCUSDT", "ETHUSDT" >>

\* the state after NewDataService (lines 64-68): the map is empty
NewDataService ==
    /\ TradingPairs = {}
    /\ LastPrice = [s \in Symbols |-> initialPrice(s)]
    /\ PriceChange = [s \in Symbols |-> 0]
    /\ CandleData = [s \in Symbols |-> << >>]
    /\ LastCandle = [s \in Symbols |-> ZeroCandle]
    /\ Subscribers = [s \in Symbols |-> {}]
    /\ Mutex = [s \in Symbols |-> FreeMutex]
    /\ pc = [s \in Symbols |-> "new"]
    /\ tickKind = [s \in Symbols |-> "none"]
    /\ currentCandle = [s \in Symbols |-> ZeroCandle]
    /\ roundedTime = [s \in Symbols |-> 0]
    /\ genNow = [s \in Symbols |-> 0]
    /\ update = [s \in Symbols |-> NoUpdate]
    /\ bcPending = [s \in Symbols |-> {}]
    /\ bcTarget = [s \in Symbols |-> NoConn]
    /\ bcStart = [s \in Symbols |-> {}]
    /\ bcLog = [s \in Symbols |-> << >>]
    /\ closed = {}
    /\ call = [h \in Handlers |-> NoCall]
    /\ ret = [h \in Handlers |-> "none"]
    /\ events = 0
    /\ request = [g \in Callers |-> NoRequest]
    /\ result = [g \in Callers |-> << >>]
    /\ response = [g \in Callers |-> NoResponse]
    /\ stopped = [s \in Symbols |-> FALSE]
    /\ proc = "serving"

\* lines 99-103: the next pair is made by NewTradingPair and inserted
RegisterNext ==
    /\ Cardinality(TradingPairs) < Len(PairOrder)
    /\ LET s == PairOrder[Cardinality(TradingPairs) + 1] IN
         /\ TradingPairs' = TradingPairs \cup {s}
         /\ LastPrice' = [LastPrice EXCEPT ![s] = initialPrice(s)]
         /\ PriceChange' = [PriceChange EXCEPT ![s] = 0]
         /\ CandleData' = [CandleData EXCEPT ![s] = << >>]
         /\ Subscribers' = [Subscribers EXCEPT ![s] = {}]
    /\ UNCHANGED << envVars, LastCandle, Mutex, pc, tickKind, currentCandle,
                    roundedTime, genNow, update, bcPending, bcTarget, bcStart,
                    bcLog, closed, call, ret, events >>

\* a loop that starts as soon as one pair is inserted
LoopMayStartEarly(pairs) == pairs # {}

\* the for loop of lines 106-110 is reached after the last insertion
LoopMayStart(pairs) == Cardinality(pairs) = Len(PairOrder)

\* InitializeTradingPairs and the simulators it starts, followed through
\* their start and their candle ticks; the price ticks, which touch neither
\* the registry nor another pair, are left out.  The server listens only
\* after InitializeTradingPairs has returned, and the simulators find no
\* subscribers.
BootNext ==
    \/ RegisterNext
    \/ \E s \in TradingPairs : LoopMayStart(TradingPairs) /\ InitializeNext(s)
    \/ \E s \in TradingPairs : GenerateInitialCandleData(s)
    \/ \E s \in TradingPairs : SimCheckData(s)
    \/ \E s \in TradingPairs : SimInitCandle(s)
    \/ \E s \in TradingPairs : CandleTick(s)
    \/ \E s \in TradingPairs : CreateNewCandle(s)
    \/ \E s \in TradingPairs : BroadcastBegin(s)

BootSpec == NewDataService /\ [][BootNext]_vars

----------------------------------------------------------------------------
(* One subscriber and a handler *)

\* conn c2 is subscribed when the behaviour starts
OneSubscriberInit == LiveState({"c2"})

SerialSpec == OneSubscriberInit /\ [][LiveNext]_vars

----------------------------------------------------------------------------
(* Two instruments side by side *)

\* the instrument whose subscriber may never take its sends, and the other
Stalled == "ETHUSDT"
Other == "BTCUSDT"

\* The running system with every symbol of Symbols an instrument, after
\* InitializeTradingPairs has returned and conn c2 has subscribed to Stalled;
\* the loop read the same clock value and the same draws for both pairs.
PairsInit ==
    /\ TradingPairs = Symbols
    /\ \E t \in ClockValues, seed \in 0..MaxSeed :
         CandleData = [s \in Symbols |-> GenCandles(initialPrice(s), t, seed)]
    /\ LastCandle = [s \in Symbols |-> Last(CandleData[s])]
    /\ LastPrice = [s \in Symbols |-> Last(CandleData[s]).Close]
    /\ PriceChange = [s \in Symbols |-> 0]
    /\ Subscribers = [s \in Symbols |-> IF s = Stalled THEN {"c2"} ELSE {}]
    /\ Mutex = [s \in Symbols |-> FreeMutex]
    /\ pc = [s \in Symbols |-> "sim_check"]
    /\ tickKind = [s \in Symbols |-> "none"]
    /\ currentCandle = [s \in Symbols |-> ZeroCandle]
    /\ roundedTime = [s \in Symbols |-> 0]
    /\ genNow = [s \in Symbols |-> 0]
    /\ update = [s \in Symbols |-> NoUpdate]
    /\ bcPending = [s \in Symbols |-> {}]
    /\ bcTarget = [s \in Symbols |-> NoConn]
    /\ bcStart = [s \in Symbols |-> {}]
    /\ bcLog = [s \in Symbols |-> << >>]
    /\ closed = {}
    /\ call = [h \in Handlers |-> NoCall]
    /\ ret = [h \in Handlers |-> "none"]
    /\ events = 0
    /\ request = [g \in Callers |-> NoRequest]
    /\ result = [g \in Callers |-> << >>]
    /\ response = [g \in Callers |-> NoResponse]
    /\ stopped = [s \in Symbols |-> FALSE]
    /\ proc = "serving"

\* The two simulators followed through their price ticks and broadcasts (the
\* rollovers, which broadcast in the same way, are left out)
PairsSimNext ==
    \/ \E s \in TradingPairs : SimCheckData(s)
    \/ \E s \in TradingPairs : SimInitCandle(s)
    \/ \E s \in TradingPairs : PriceTick(s)
    \/ \E s \in TradingPairs : UpdatePriceAndCandle(s)
    \/ \E s \in TradingPairs : BroadcastBegin(s)
    \/ \E s \in TradingPairs : BroadcastSend(s)
    \/ \E s \in TradingPairs : BroadcastSendReturn(s)
    \/ \E s \in TradingPairs : BroadcastEnd(s)

\* the same with the handlers
PairsNext ==
    \/ PairsSimNext
    \/ \E h \in Handlers : AddSubscriberCall(h)
    \/ \E h \in Handlers : RemoveSubscriberCall(h)
    \/ \E h \in Handlers : HandlerLockPending(h)
    \/ \E h \in Handlers : HandlerLock(h)
    \/ \E h \in Handlers : AddSubscriber(h)
    \/ \E h \in Handlers : RemoveSubscriber(h)

\* the simulators with the stop signals
PairsStopNext ==
    \/ PairsSimNext
    \/ \E s \in TradingPairs : CloseStopChan(s)
    \/ \E s \in TradingPairs : SimStop(s)

PairsStopSpec == PairsInit /\ [][PairsStopNext]_vars

\* the same with the callers of GetCandleData
PairsApiNext ==
    \/ PairsNext
    \/ \E g \in Callers : GetCandleDataCall(g)
    \/ \E g \in Callers : GetCandleDataCopy(g)
    \/ \E g \in Callers : GetCandleDataReturn(g)

\* the steps of a caller of GetCandleData inside a call
CallerStep(g) == GetCandleDataCopy(g) \/ GetCandleDataReturn(g)

\* a WriteJSON in progress for an instrument other than Stalled returns
OtherSendReturn(s) ==
    /\ s \in TradingPairs \ {Stalled}
    /\ BroadcastSendReturn(s)

\* The scheduler runs every goroutine that can take a step, and the sends of
\* the instruments other than Stalled return; nothing obliges a send of
\* Stalled to return.
PairsFairSpec ==
    /\ PairsInit
    /\ [][PairsApiNext]_vars
    /\ \A s \in Symbols : WF_vars(SimStep(s))
    /\ \A h \in Handlers : WF_vars(HandlerStep(h))
    /\ \A g \in Callers : WF_vars(CallerStep(g))
    /\ \A s \in Symbols : WF_vars(OtherSendReturn(s))

----------------------------------------------------------------------------
(* GetTradingPairsHandler (GET /api/pairs), api_handlers.go lines 37-56,    *)
(* run by a caller goroutine; result is its local slice pairs               *)

\* the symbols of the entries the handler has appended to pairs
Listed(g) == {result[g][i].symbol : i \in 1..Len(result[g])}

\* lines 37-38: the request arrives and the slice is made
ListPairsCall(g) ==
    /\ InitDone
    /\ request[g].st = "idle"
    /\ events < MaxEvents
    /\ events' = events + 1
    /\ request' = [request EXCEPT ![g] = [sym |-> "none", st |-> "list"]]
    /\ result' = [result EXCEPT ![g] = << >>]
    /\ response' = [response EXCEPT ![g] = NoResponse]
    /\ UNCHANGED << TradingPairs, LastPrice, PriceChange, CandleData,
                    LastCandle, Subscribers, Mutex, pc, tickKind,
                    currentCandle, roundedTime, genNow, update, bcPending,
                    bcTarget, bcStart, bcLog, closed, call, ret, stopped,
                    proc >>

\* lines 40-41: the range over the registry produces the next pair (each pair
\* once, in any order), and the handler calls pair.Mutex.RLock()
ListPairsRange(g) ==
    /\ request[g].st = "list"
    /\ \E s \in TradingPairs \ Listed(g) :
         request' = [request EXCEPT ![g] = [sym |-> s, st |-> "list_rlock"]]
    /\ UNCHANGED << TradingPairs, LastPrice, PriceChange, CandleData,
                    LastCandle, Subscribers, Mutex, pc, tickKind,
                    currentCandle, roundedTime, genNow, update, bcPending,
                    bcTarget, bcStart, bcLog, closed, call, ret, events,
                    result, response, stopped, proc >>

\* lines 41-46: RLock returns and the symbol, the last price and the price
\* change are read into pairData
ListPairsRead(g) ==
    /\ request[g].st = "list_rlock"
    /\ CanRLock(Mutex[request[g].sym])
    /\ Mutex' = [Mutex EXCEPT ![request[g].sym] = RLocked(@, g)]
    /\ result' = [result EXCEPT ![g] =
                      Append(@, [symbol |-> request[g].sym,
                                 lastPrice |-> LastPrice[request[g].sym],
                                 priceChange |-> PriceChange[request[g].sym]])]
    /\ request' = [request EXCEPT ![g].st = "list_runlock"]
    /\ UNCHANGED << TradingPairs, LastPrice, PriceChange, CandleData,
                    LastCandle, Subscribers, pc, tickKind,
                    currentCandle, roundedTime, genNow, update, bcPending,
                    bcTarget, bcStart, bcLog, closed, call, ret, events,
                    response, stopped, proc >>

\* lines 47-49: the lock is released and pairData appended to pairs
ListPairsRUnlock(g) ==
    /\ request[g].st = "list_runlock"
    /\ Mutex' = [Mutex EXCEPT ![request[g].sym] = RUnlocked(@, g)]
    /\ request' = [request EXCEPT ![g] = [sym |-> "none", st |-> "list"]]
    /\ UNCHANGED << TradingPairs, LastPrice, PriceChange, CandleData,
                    LastCandle, Subscribers, pc, tickKind,
                    currentCandle, roundedTime, genNow, update, bcPending,
                    bcTarget, bcStart, bcLog, closed, call, ret, events,
                    result, response, stopped, proc >>

\* lines 52-55: the range is over and the list is encoded into the response
ListPairsReturn(g) ==
    /\ request[g].st = "list"
    /\ Listed(g) = TradingPairs
    /\ request' = [request EXCEPT ![g] = NoRequest]
    /\ response' = [response EXCEPT ![g] =
                       [err |-> "nil", status |-> StatusOK]]
    /\ UNCHANGED << TradingPairs, LastPrice, PriceChange, CandleData,
                    LastCandle, Subscribers, Mutex, pc, tickKind,
                    currentCandle, roundedTime, genNow, update, bcPending,
                    bcTarget, bcStart, bcLog, closed, call, ret, events,
                    result, stopped, proc >>

\* the steps of a caller goroutine inside a GET /api/pairs request
ListStep(g) ==
    \/ ListPairsRange(g)
    \/ ListPairsRead(g)
    \/ ListPairsRUnlock(g)
    \/ ListPairsReturn(g)

\* The running system with one subscriber, followed through its candle
\* ticks, rollovers and broadcasts (a price tick broadcasts in the same way),
\* with the handlers and the callers of both read operations
ListNext ==
    \/ \E s \in TradingPairs : SimCheckData(s)
    \/ \E s \in TradingPairs : SimInitCandle(s)
    \/ \E s \in TradingPairs : CandleTick(s)
    \/ \E s \in TradingPairs : CreateNewCandle(s)
    \/ \E s \in TradingPairs : BroadcastBegin(s)
    \/ \E s \in TradingPairs : BroadcastSend(s)
    \/ \E s \in TradingPairs : BroadcastSendReturn(s)
    \/ \E s \in TradingPairs : BroadcastEnd(s)
    \/ \E h \in Handlers : AddSubscriberCall(h)
    \/ \E h \in Handlers : RemoveSubscriberCall(h)
    \/ \E h \in Handlers : HandlerLockPending(h)
    \/ \E h \in Handlers : HandlerLock(h)
    \/ \E h \in Handlers : AddSubscriber(h)
    \/ \E h \in Handlers : RemoveSubscriber(h)
    \/ \E g \in Callers : GetCandleDataCall(g)
    \/ \E g \in Callers : GetCandleDataCopy(g)
    \/ \E g \in Callers : GetCandleDataReturn(g)
    \/ \E g \in Callers : ListPairsCall(g)
    \/ \E g \in Callers : ListPairsRange(g)
    \/ \E g \in Callers : ListPairsRead(g)
    \/ \E g \in Callers : ListPairsRUnlock(g)
    \/ \E g \in Callers : ListPairsReturn(g)

\* The scheduler runs every goroutine that can take a step; nothing obliges
\* a WriteJSON in progress to return.
ListSpec ==
    /\ OneSubscriberInit
    /\ [][ListNext]_vars
    /\ \A s \in Symbols : WF_vars(SimStep(s))
    /\ \A h \in Handlers : WF_vars(HandlerStep(h))
    /\ \A g \in Callers : WF_vars(CallerStep(g))
    /\ \A g \in Callers : WF_vars(ListStep(g))

\* Two instruments with the handlers and the callers of both read
\* operations
PairsListNext ==
    \/ PairsApiNext
    \/ \E g \in Callers : ListPairsCall(g)
    \/ \E g \in Callers : ListPairsRange(g)
    \/ \E g \in Callers : ListPairsRead(g)
    \/ \E g \in Callers : ListPairsRUnlock(g)
    \/ \E g \in Callers : ListPairsReturn(g)

\* a WriteJSON in progress returns
SendReturns(s) == s \in TradingPairs /\ BroadcastSendReturn(s)

\* The scheduler runs every goroutine that can take a step, and every
\* WriteJSON returns, with or without an error.
PairsListSpec ==
    /\ PairsInit
    /\ [][PairsListNext]_vars
    /\ \A s \in Symbols : WF_vars(SimStep(s))
    /\ \A s \in Symbols : WF_vars(SendReturns(s))
    /\ \A h \in Handlers : WF_vars(HandlerStep(h))
    /\ \A g \in Callers : WF_vars(CallerStep(g))
    /\ \A g \in Callers : WF_vars(ListStep(g))

----------------------------------------------------------------------------
(* Notions the properties share *)

\* the first live (10-second) bucket: a candle with this Time was opened by
\* the simulator, not generated by the bootstrap
FirstLiveTime == RoundedTime(StartNow) * timestampMultiplier

LockFree(s) == Mutex[s].w = "none" /\ Mutex[s].r = {}

WellFormed(c) == c.Low <= Min(c.Open, c.Close) /\ c.High >= Max(c.Open, c.Close)

Flat(c, price) ==
    c.Open = price /\ c.High = price /\ c.Low = price /\ c.Close = price

\* the step of s is the body of a rollover (createNewCandle)
RolloverStep(s) == pc[s] = "ct_body" /\ pc'[s] = "bc_rlock"

----------------------------------------------------------------------------
(* C1 - C10 *)

\* C1: in every reachable state the closed-candle history of every instrument
\* holds at most maxCandleCount (288) entries.
HistoryBounded ==
    \A s \in TradingPairs : Len(CandleData[s]) <= maxCandleCount

\* a full history to which a rollover appended a live candle, and was trimmed
HistoryBoundedWitness ==
    \E s \in TradingPairs :
        /\ Len(CandleData[s]) = maxCandleCount
        /\ Last(CandleData[s]).Time >= FirstLiveTime

\* C2: in every reachable state the history is ordered oldest-first with
\* strictly increasing timestamps.
HistoryStrictlyIncreasing ==
    \A s \in TradingPairs :
        \A i \in 1..(Len(CandleData[s]) - 1) :
            CandleData[s][i].Time < CandleData[s][i + 1].Time

\* the newest entry is a live candle that follows the generated ones, and the
\* oldest generated candle has been dropped
HistoryStrictlyIncreasingWitness ==
    \E s \in TradingPairs :
        /\ Len(CandleData[s]) > 1
        /\ Last(CandleData[s]).Time = FirstLiveTime
        /\ CandleData[s][Len(CandleData[s]) - 1].Time < FirstLiveTime
        /\ \E t \in ClockValues :
             CandleData[s][1].Time >
                 GenStartTime(t) * timestampMultiplier

\* C3 as stated: whenever the lock of an instrument is free, its last price
\* equals the close of its current candle (pair.LastCandle).
LastPriceIsCandleClose ==
    \A s \in TradingPairs :
        LockFree(s) => LastPrice[s] = LastCandle[s].Close

\* C3 as amended: the same, once GenerateInitialCandleData has filled the
\* history of the instrument.
LastPriceIsCandleCloseOnceGenerated ==
    \A s \in TradingPairs :
        LockFree(s) /\ Len(CandleData[s]) > 0
            => LastPrice[s] = LastCandle[s].Close

\* a price tick has moved the last price away from the generated close, and
\* the lock is free again
LastPriceIsCandleCloseWitness ==
    \E s \in TradingPairs :
        /\ LockFree(s)
        /\ pc[s] = "bc_rlock"
        /\ tickKind[s] = "price"
        /\ Len(CandleData[s]) > 0
        /\ LastPrice[s] # Last(CandleData[s]).Close
        /\ LastPrice[s] = LastCandle[s].Close

\* C4: every candle (each history entry, pair.LastCandle and the simulator's
\* current candle) has low <= min(open, close) and high >= max(open, close).
CandlesWellFormed ==
    \A s \in TradingPairs :
        /\ \A i \in 1..Len(CandleData[s]) : WellFormed(CandleData[s][i])
        /\ WellFormed(LastCandle[s])
        /\ WellFormed(currentCandle[s])

\* the newest history entry is a live candle that price ticks have moved, and
\* the current candle was moved by a tick too
CandlesWellFormedWitness ==
    \E s \in TradingPairs :
        /\ Len(CandleData[s]) > 0
        /\ Last(CandleData[s]).Time = FirstLiveTime
        /\ Last(CandleData[s]).Close # Last(CandleData[s]).Open
        /\ currentCandle[s].Close # currentCandle[s].Open
        /\ currentCandle[s].Time > FirstLiveTime

\* C5 as stated: after every rollover the new current candle is flat at the
\* last price, and the previous current candle is the newest history entry.
RolloverKeepsPreviousCandle ==
    [][\A s \in TradingPairs :
         RolloverStep(s) =>
            /\ Flat(currentCandle'[s], LastPrice[s])
            /\ LastCandle'[s] = currentCandle'[s]
            /\ Len(CandleData'[s]) > 0
            /\ Last(CandleData'[s]) = currentCandle[s]]_vars

\* C5 as amended: after every rollover the new current candle is flat at the
\* last price; the previous current candle, as the price ticks left it, is the
\* newest history entry when its timestamp exceeded the newest entry's (or the
\* history was empty), and otherwise the history is unchanged.
RolloverKeepsNewerCandle ==
    [][\A s \in TradingPairs :
         RolloverStep(s) =>
            /\ Flat(currentCandle'[s], LastPrice[s])
            /\ LastCandle'[s] = currentCandle'[s]
            /\ LastPrice'[s] = LastPrice[s]
            /\ IF Len(CandleData[s]) = 0
                  \/ currentCandle[s].Time > Last(CandleData[s]).Time
               THEN /\ Len(CandleData'[s]) > 0
                    /\ Last(CandleData'[s]) = currentCandle[s]
               ELSE CandleData'[s] = CandleData[s]]_vars

\* a rollover has just moved a current candle that price ticks had changed
\* into the history and opened a flat one
RolloverKeepsNewerCandleWitness ==
    \E s \in TradingPairs :
        /\ pc[s] = "bc_rlock"
        /\ tickKind[s] = "candle"
        /\ Len(CandleData[s]) = maxCandleCount
        /\ Last(CandleData[s]).Time = FirstLiveTime
        /\ Last(CandleData[s]).High > Last(CandleData[s]).Open
        /\ Flat(currentCandle[s], LastPrice[s])
        /\ Last(CandleData[s]).Close = LastPrice[s]

\* the conns of the sends logged by the running broadcast of s
Sent(s) == {bcLog[s][i].conn : i \in 1..Len(bcLog[s])}
Failed(s) == {bcLog[s][i].conn : i \in {j \in 1..Len(bcLog[s]) : ~bcLog[s][j].ok}}
SentOnce(s) ==
    \A i, j \in 1..Len(bcLog[s]) : bcLog[s][i].conn = bcLog[s][j].conn => i = j

\* C6: while a broadcast holds the lock no conn is sent to twice and every
\* conn whose send failed is closed and out of the subscriber set; when the
\* loop is over, still under the lock, every member at the start has had
\* exactly one send.
BroadcastSendsOnceAndDropsFailed ==
    \A s \in TradingPairs :
        pc[s] \in {"bc_loop", "bc_write"} =>
            /\ "sim" \in Mutex[s].r
            /\ SentOnce(s)
            /\ Sent(s) \subseteq bcStart[s]
            /\ pc[s] = "bc_write" => bcTarget[s] \in bcStart[s] \ Sent(s)
            /\ Failed(s) \subseteq closed
            /\ Subscribers[s] = bcStart[s] \ Failed(s)
            /\ (pc[s] = "bc_loop" /\ bcPending[s] = {}) => Sent(s) = bcStart[s]

\* a broadcast to two subscribers is over, one send failed and the next
\* one succeeded
BroadcastSendsOnceAndDropsFailedWitness ==
    \E s \in TradingPairs :
        /\ pc[s] = "bc_loop"
        /\ bcPending[s] = {}
        /\ Len(bcLog[s]) = 2
        /\ ~bcLog[s][1].ok
        /\ bcLog[s][2].ok

\* C7: a send that does not return does not stop the simulator: it comes back
\* to its select again and again.
SimulatorKeepsTicking ==
    \A s \in Symbols : []<>(s \in TradingPairs => pc[s] = "select")

\* the fields of the pair that the lock protects
Fields(s) == << LastPrice[s], PriceChange[s], CandleData[s], LastCandle[s],
                Subscribers[s] >>

\* C8: every step that changes a protected field of an instrument is taken
\* by the holder of the instrument's exclusive lock.
WritesHoldExclusiveLock ==
    [][\A s \in TradingPairs : Fields(s)' # Fields(s) => Mutex[s].w # "none"]_vars

\* C9: a simulator that is suspended (in its select, or inside a WriteJSON)
\* holds the instrument's lock in neither mode.
NoSuspensionUnderLock ==
    \A s \in TradingPairs :
        pc[s] \in {"select", "bc_write"} =>
            Mutex[s].w # "sim" /\ "sim" \notin Mutex[s].r

\* the step of h is the body of an AddSubscriber / RemoveSubscriber call
BodyStep(h, op) ==
    call[h].st = "body" /\ call[h].op = op /\ call'[h] = NoCall

\* C10: AddSubscriber leaves the conn a member (exactly once: a second add
\* changes nothing) and returns nil; RemoveSubscriber of a conn that is not a
\* member changes nothing and returns nil; a broadcast sends to a member once.
SubscribeIdempotent ==
    /\ [][\A h \in Handlers :
            /\ BodyStep(h, "add") =>
                 /\ Subscribers'[call[h].sym] =
                        Subscribers[call[h].sym] \cup {call[h].conn}
                 /\ call[h].conn \in Subscribers[call[h].sym]
                        => Subscribers' = Subscribers
                 /\ ret'[h] = "nil"
            /\ BodyStep(h, "remove") =>
                 /\ call[h].conn \notin Subscribers'[call[h].sym]
                 /\ call[h].conn \notin Subscribers[call[h].sym]
                        => Subscribers' = Subscribers
                 /\ ret'[h] = "nil"]_vars
    /\ [](\A s \in Symbols : SentOnce(s))

\* AddSubscriber holds the lock for a conn that is already a member of a
\* non-empty set
SubscribeIdempotentWitness ==
    \E h \in Handlers :
        /\ call[h].st = "body"
        /\ call[h].op = "add"
        /\ call[h].conn \in Subscribers[call[h].sym]

----------------------------------------------------------------------------
(* C11 - C20 *)

\* a call with an unknown symbol: it begins and returns in one step
ImmediateReturn ==
    /\ events' = events + 1
    /\ pc' = pc
    /\ call' = call
    /\ \A g \in Callers : request[g].st = "idle" /\ request'[g].st = "idle"

\* C11: GetCandleData, AddSubscriber and RemoveSubscriber with a symbol that
\* is not registered fail with the NotFound error (ErrTradingPairNotFound) and
\* change neither the registry nor any field of any instrument.
UnknownSymbolIsNotFound ==
    /\ [](\A g \in Callers :
            request[g].sym = UnknownSymbol =>
                /\ request[g].st = "idle"
                /\ ErrorsIs(response[g].err, ErrTradingPairNotFound))
    /\ [](\A h \in Handlers :
            ret[h] \notin {"none", "nil"} =>
                ErrorsIs(ret[h], ErrTradingPairNotFound))
    /\ [][ImmediateReturn =>
            /\ TradingPairs' = TradingPairs
            /\ Mutex' = Mutex
            /\ \A s \in Symbols : Fields(s)' = Fields(s)]_vars

\* C12: a GetCandlesHandler request for a symbol that is not registered is
\* answered with 404 Not Found.
UnknownSymbolAnswered404 ==
    \A g \in Callers :
        (request[g].sym = UnknownSymbol /\ response[g].status # 0)
            => response[g].status = StatusNotFound

\* C13: a GetCandleData call for a registered symbol that returned without
\* error returned maxCandleCount candles, also when it found the history
\* empty (it regenerates it), never an empty sequence.
EmptyHistoryRegenerated ==
    \A g \in Callers :
        (request[g].st = "idle" /\ response[g].err = "nil")
            => Len(result[g]) = maxCandleCount

\* timestamps strictly increasing and every candle well formed
Consistent(h) ==
    /\ \A i \in 1..(Len(h) - 1) : h[i].Time < h[i + 1].Time
    /\ \A i \in 1..Len(h) : WellFormed(h[i])

\* C14: the sequence GetCandleData returns is a copy made while the caller
\* holds the shared lock and no writer is inside: while the call still holds
\* the lock the copy equals the history, which no step changes meanwhile; the
\* copy is consistent; and once built it is changed by no step of the
\* simulator or of another caller.
SnapshotUnderSharedLock ==
    /\ [](\A g \in Callers :
            request[g].st = "copied" =>
                /\ g \in Mutex[request[g].sym].r
                /\ Mutex[request[g].sym].w = "none"
                /\ result[g] = CandleData[request[g].sym])
    /\ [](\A g \in Callers : Consistent(result[g]))
    /\ [][\A g \in Callers :
            /\ (request[g].st = "copied" /\ request'[g].st = "copied")
                  => CandleData'[request[g].sym] = CandleData[request[g].sym]
            /\ result'[g] # result[g]
                  => request[g].st \in {"idle", "rlock"}
                     /\ request'[g] # request[g]]_vars

\* one caller holds a snapshot that a later rollover has left behind, while
\* another caller is copying the history as it is now
SnapshotUnderSharedLockWitness ==
    /\ request["g1"].st = "idle"
    /\ response["g1"].err = "nil"
    /\ Len(result["g1"]) = maxCandleCount
    /\ request["g2"].st = "copied"
    /\ Len(result["g2"]) = maxCandleCount
    /\ result["g1"] # result["g2"]
    /\ request["g1"].sym = request["g2"].sym

\* C17 : in every state a reader can observe (no writer holds the lock, the
\* history is generated) and in every payload, the price change is
\* (LastPrice / CandleData[0].Open - 1) * 100 for the oldest retained candle.
PriceChangeAgainstOldest ==
    \A s \in TradingPairs :
        (Mutex[s].w = "none" /\ Len(CandleData[s]) > 0) =>
            /\ PriceChange[s] =
                   PercentChange(LastPrice[s], CandleData[s][1].Open)
            /\ update[s] # NoUpdate =>
                   update[s].priceChange =
                       PercentChange(update[s].lastPrice,
                                     CandleData[s][1].Open)

\* the positions of the simulator inside BroadcastUpdate
InBroadcast(s) == pc[s] \in {"bc_rlock", "bc_loop", "bc_write"}

\* C18: the body of a price tick and of a rollover is followed by one call of
\* BroadcastUpdate, which sends the pair as the tick left it to the
\* subscribers it finds, once each, and only then does the simulator come
\* back to its select; the next tick starts from the select; a candle tick
\* without rollover stays in the select and broadcasts nothing.
TickThenOneBroadcast ==
    [][\A s \in TradingPairs :
         /\ (pc[s] \in {"pt_body", "ct_body"} /\ pc'[s] # pc[s])
               => pc'[s] = "bc_rlock"
         /\ (pc[s] = "bc_rlock" /\ pc'[s] # pc[s]) =>
               IF Subscribers[s] = {}
               THEN pc'[s] = "select" /\ update'[s] = NoUpdate
               ELSE /\ pc'[s] = "bc_loop"
                    /\ bcStart'[s] = Subscribers[s]
                    /\ bcLog'[s] = << >>
                    /\ update'[s] = [symbol |-> s,
                                     lastPrice |-> LastPrice[s],
                                     priceChange |-> PriceChange[s],
                                     lastCandle |-> LastCandle[s]]
         /\ InBroadcast(s) =>
               /\ LastPrice'[s] = LastPrice[s]
               /\ PriceChange'[s] = PriceChange[s]
               /\ LastCandle'[s] = LastCandle[s]
               /\ CandleData'[s] = CandleData[s]
         /\ (pc[s] \in {"bc_loop", "bc_write"} /\ pc'[s] = "select") =>
               /\ SentOnce(s)
               /\ Sent(s) = bcStart[s]
         /\ (pc'[s] = "select" /\ pc[s] # "select")
               => pc[s] \in {"sim_init", "bc_rlock", "bc_loop"}
         /\ (pc[s] = "select" /\ pc'[s] # "select")
               => pc'[s] \in {"pt_body", "ct_body"} /\ Mutex'[s].w = "sim"
         /\ (pc[s] = "select" /\ pc'[s] = "select")
               => /\ update'[s] = NoUpdate
                  /\ bcLog'[s] = bcLog[s]
                  /\ LastPrice'[s] = LastPrice[s]
                  /\ LastCandle'[s] = LastCandle[s]
                  /\ CandleData'[s] = CandleData[s]]_vars

\* the broadcast that follows a price tick has sent the new price to the
\* subscribers it found
TickThenOneBroadcastWitness ==
    \E s \in TradingPairs :
        /\ pc[s] = "bc_loop"
        /\ tickKind[s] = "price"
        /\ bcPending[s] = {}
        /\ bcStart[s] # {}
        /\ Sent(s) = bcStart[s]
        /\ update[s].lastPrice = LastPrice[s]
        /\ update[s].lastPrice # Last(CandleData[s]).Close

\* C20 as stated: the sequence GetCandleData copies from a generated history
\* has maxCandleCount candles and its last close is the pair's last price.
HistoryEndsAtLastPrice ==
    \A g \in Callers :
        (request[g].st = "copied" /\ Len(CandleData[request[g].sym]) > 0) =>
            /\ Len(result[g]) = maxCandleCount
            /\ Last(result[g]).Close = LastPrice[request[g].sym]

\* C20 as amended: it has maxCandleCount candles, and its last close is the
\* last price while pair.LastCandle is still the newest history entry.
HistoryEndsAtLastPriceUntilTick ==
    \A g \in Callers :
        (request[g].st = "copied" /\ Len(CandleData[request[g].sym]) > 0) =>
            /\ Len(result[g]) = maxCandleCount
            /\ LastCandle[request[g].sym] = Last(CandleData[request[g].sym])
                  => Last(result[g]).Close = LastPrice[request[g].sym]

\* a caller copies the history of a started instrument before its first tick
HistoryEndsAtLastPriceWitness ==
    \E g \in Callers :
        /\ request[g].st = "copied"
        /\ request[g].sym \in TradingPairs
        /\ pc[request[g].sym] = "select"
        /\ Len(result[g]) = maxCandleCount
        /\ LastCandle[request[g].sym] = Last(result[g])
        /\ Last(result[g]).Close = LastPrice[request[g].sym]

\* C15: once pair.StopChan is closed the simulator ends (pc = "done", both
\* tickers stopped), and from the select that follows the close it starts no
\* price tick and no rollover.
StopEndsSimulator ==
    /\ \A s \in Symbols : (s \in TradingPairs /\ stopped[s]) ~> pc[s] = "done"
    /\ [][\A s \in TradingPairs :
            (stopped[s] /\ pc[s] = "select")
                => pc'[s] \in {"select", "done"}]_vars

\* C16: when main has returned, every pair's StopChan is closed and every
\* simulator has ended.
ShutdownStopsSimulators ==
    proc = "exited" =>
        \A s \in TradingPairs : stopped[s] /\ pc[s] = "done"

\* the running broadcast of s has sent to conn without error
Pushed(s, conn) ==
    \E i \in 1..Len(bcLog[s]) : bcLog[s][i] = [conn |-> conn, ok |-> TRUE]

\* C19: when a price tick of s has been processed while Endpoint is
\* subscribed to s, Endpoint gets a push for s (or it is no longer
\* subscribed), whatever the other subscribers do.
SubscriberGetsPush ==
    \A s \in Symbols :
        (s \in TradingPairs /\ Endpoint \in Subscribers[s]
            /\ pc[s] = "bc_rlock" /\ tickKind[s] = "price")
        ~> (Endpoint \notin Subscribers[s]
               \/ (Pushed(s, Endpoint) /\ update[s].symbol = s))

----------------------------------------------------------------------------
(* C21 - C30 *)

\* the step of s is a return of GenerateInitialCandleData: the history
\* changes and the step is not a rollover
BootstrapStep(s) == CandleData'[s] # CandleData[s] /\ ~RolloverStep(s)

\* the start of the 5-minute interval that holds nowSec (milliseconds)
Boundary(nowSec) ==
    FloorTo(nowSec, minutesPerCandle * 60) * timestampMultiplier

\* C21: when GenerateInitialCandleData returns, the history has exactly
\* maxCandleCount (288) entries, consecutive timestamps differ by 5 minutes,
\* the first entry is 24 hours and the last 5 minutes before the current
\* 5-minute boundary, and nothing of the previous history is left.
BootstrapFillsDay ==
    [][\A s \in TradingPairs :
         BootstrapStep(s) =>
            /\ Len(CandleData'[s]) = maxCandleCount
            /\ \A i \in 1..(maxCandleCount - 1) :
                  CandleData'[s][i + 1].Time - CandleData'[s][i].Time
                      = minutesPerCandle * 60 * timestampMultiplier
            /\ \E t \in ClockValues :
                  /\ pc[s] \in {"main_gen", "sim_gen"} => t = genNow[s]
                  /\ CandleData'[s][1].Time =
                         Boundary(t) - hoursPerDay * 3600 * timestampMultiplier
                  /\ Last(CandleData'[s]).Time =
                         Boundary(t) - minutesPerCandle * 60 * timestampMultiplier
            /\ LastCandle'[s] = Last(CandleData'[s])
            /\ LastPrice'[s] = Last(CandleData'[s]).Close]_vars

\* a history that held a live candle has been generated again, from the last
\* price the first generation and the ticks had left
BootstrapFillsDayWitness ==
    \E s \in TradingPairs :
        /\ currentCandle[s].Time > FirstLiveTime
        /\ Len(CandleData[s]) = maxCandleCount
        /\ Last(CandleData[s]).Time < FirstLiveTime
        /\ \A t \in ClockValues, seed \in 0..MaxSeed :
              CandleData[s][1] #
                  GenLoop(0, 1, GenBasePrice(initialPrice(s)), GenStartTime(t),
                          seed).candles[1]

\* C22: a rollover that appends the current candle to a history of
\* maxCandleCount (288) entries leaves exactly 288 entries: the former oldest
\* entry is dropped, the other 287 follow in their order, then the new one.
TrimDropsOldest ==
    [][\A s \in TradingPairs :
         (/\ RolloverStep(s)
          /\ Len(CandleData[s]) = maxCandleCount
          /\ currentCandle[s].Time > Last(CandleData[s]).Time) =>
            /\ Len(CandleData'[s]) = maxCandleCount
            /\ \A i \in 1..(maxCandleCount - 1) :
                  CandleData'[s][i] = CandleData[s][i + 1]
            /\ CandleData'[s][maxCandleCount] = currentCandle[s]]_vars

\* a rollover has just appended the first live candle to the full generated
\* history, whose second entry is now the oldest
TrimDropsOldestWitness ==
    \E s \in TradingPairs :
        /\ pc[s] = "bc_rlock"
        /\ tickKind[s] = "candle"
        /\ Len(CandleData[s]) = maxCandleCount
        /\ Last(CandleData[s]).Time = FirstLiveTime
        /\ \E t \in ClockValues :
              CandleData[s][1].Time =
                  (GenStartTime(t) + minutesPerCandle * 60) * timestampMultiplier

\* C23: every broadcast payload is the pair as one completed tick left it:
\* between the tick's Unlock and the end of the broadcast no step changes
\* lastPrice, priceChange or lastCandle; the payload holds these three values,
\* no writer is inside while it exists, and its lastPrice is the close of its
\* lastCandle, which is the simulator's current candle.
PayloadIsSnapshot ==
    /\ [](\A s \in TradingPairs :
            /\ pc[s] = "bc_rlock" =>
                  /\ Mutex[s].w # "sim"
                  /\ LastCandle[s] = currentCandle[s]
                  /\ LastPrice[s] = LastCandle[s].Close
            /\ update[s] # NoUpdate =>
                  /\ pc[s] \in {"bc_loop", "bc_write"}
                  /\ Mutex[s].w = "none"
                  /\ "sim" \in Mutex[s].r
                  /\ update[s].symbol = s
                  /\ update[s].lastPrice = LastPrice[s]
                  /\ update[s].priceChange = PriceChange[s]
                  /\ update[s].lastCandle = LastCandle[s]
                  /\ update[s].lastCandle = currentCandle[s]
                  /\ update[s].lastPrice = update[s].lastCandle.Close)
    /\ [][\A s \in TradingPairs :
            InBroadcast(s) =>
                /\ LastPrice'[s] = LastPrice[s]
                /\ PriceChange'[s] = PriceChange[s]
                /\ LastCandle'[s] = LastCandle[s]
                /\ update[s] # NoUpdate /\ update'[s] # NoUpdate
                      => update'[s] = update[s]]_vars

\* the payload of the broadcast after a price tick that moved the price is
\* being written to a subscriber
PayloadIsSnapshotWitness ==
    \E s \in TradingPairs :
        /\ pc[s] = "bc_write"
        /\ tickKind[s] = "price"
        /\ update[s].lastPrice # Last(CandleData[s]).Close
        /\ update[s].lastCandle.Close = update[s].lastPrice
        /\ update[s].priceChange # 0

\* the step of s is the body of a price tick in which both calls of
\* secureFloat64 found the random source failing
FailedDrawTick(s) ==
    /\ pc[s] = "pt_body"
    /\ pc'[s] # "pt_body"
    /\ \E n \in Draws :
         /\ LastPrice'[s] = LastPrice[s]
                + RealtimeChange(LastPrice[s], secureFloat64(TRUE, n))
         /\ currentCandle'[s].Volume = currentCandle[s].Volume
                + (secureFloat64(TRUE, n) * smallVolumeVariation) \div 1000

\* C24: a failing random source yields the draw 0.5, which is one of the
\* draws the simulator works with; a price tick with that draw completes: the
\* last price is unchanged, the current candle's close is set to it, the lock
\* is released and the broadcast is next.
FailedDrawIsNeutral ==
    /\ [](\A n \in Draws : secureFloat64(TRUE, n) \in Draws)
    /\ [][\A s \in TradingPairs :
            FailedDrawTick(s) =>
                /\ LastPrice'[s] = LastPrice[s]
                /\ currentCandle'[s].Close = LastPrice[s]
                /\ currentCandle'[s].High = Max(currentCandle[s].High, LastPrice[s])
                /\ currentCandle'[s].Low = Min(currentCandle[s].Low, LastPrice[s])
                /\ LastCandle'[s] = currentCandle'[s]
                /\ Mutex'[s].w = "none"
                /\ pc'[s] = "bc_rlock"]_vars

\* the first price tick after the bootstrap drew 0.5 twice: the price is
\* still the generated close, the volume has grown by half the variation
FailedDrawIsNeutralWitness ==
    \E s \in TradingPairs :
        /\ pc[s] = "bc_rlock"
        /\ tickKind[s] = "price"
        /\ LastPrice[s] = Last(CandleData[s]).Close
        /\ LastCandle[s].Close = LastPrice[s]
        /\ LastCandle[s].Volume =
               Last(CandleData[s]).Volume + smallVolumeVariation \div 2

\* C26: every symbol is in the registry before the loop generates a history
\* or starts a simulator; an instrument's history is generated when its
\* simulator starts; a simulator is started by the loop alone, once per
\* instrument; the registry is written only while nothing is started.
RegistryBeforeSimulators ==
    /\ [](\A s \in Symbols :
            /\ pc[s] # "new" => TradingPairs = Symbols
            /\ pc[s] \notin {"new", "main_gen"}
                  => Len(CandleData[s]) = maxCandleCount)
    /\ [][/\ TradingPairs' # TradingPairs =>
               /\ \A t \in Symbols : pc[t] = "new"
               /\ TradingPairs \subseteq TradingPairs'
           /\ \A s \in Symbols :
               /\ pc[s] \notin {"new", "main_gen"}
                     => pc'[s] \notin {"new", "main_gen"}
               /\ (pc'[s] = "sim_check" /\ pc[s] # "sim_check")
                     => pc[s] = "main_gen"
               /\ pc'[s] = "main_gen" => pc[s] \in {"new", "main_gen"}]_vars

\* the simulator of one instrument runs while the loop generates the
\* history of the next
RegistryBeforeSimulatorsWitness ==
    /\ TradingPairs = Symbols
    /\ \E s, t \in Symbols :
         /\ pc[s] = "select"
         /\ currentCandle[s].Time >= FirstLiveTime
         /\ pc[t] = "main_gen"

\* C27: an instrument whose send never returns delays no operation on
\* another instrument: the other simulator comes back to its select again
\* and again, AddSubscriber, RemoveSubscriber and GetCandleData calls on the
\* other instrument return, and a step that takes or releases the lock of one
\* instrument leaves the lock of the other as it is.
InstrumentsIndependent ==
    /\ []<>(pc[Other] = "select")
    /\ \A h \in Handlers : (call[h].sym = Other) ~> (call[h] = NoCall)
    /\ \A g \in Callers :
          (request[g].sym = Other /\ request[g].st # "idle")
              ~> (request[g].st = "idle")
    /\ [][\A s, t \in Symbols :
            (s # t /\ Mutex'[s] # Mutex[s]) => Mutex'[t] = Mutex[t]]_vars

\* the other instrument has completed a price tick of its own while the
\* simulator of Stalled is inside a send, holding its shared lock
InstrumentsIndependentWitness ==
    /\ pc[Stalled] = "bc_write"
    /\ "sim" \in Mutex[Stalled].r
    /\ pc[Other] = "bc_rlock"
    /\ tickKind[Other] = "price"
    /\ LockFree(Other)

\* C25: a simulator ends only by taking the stop case of its select, with
\* its StopChan closed; a failed send is handled inside BroadcastUpdate, whose
\* loop goes on, and it moves no other instrument's simulator.
LoopEndsOnlyOnStop ==
    /\ [](\A s \in TradingPairs : pc[s] = "done" => stopped[s])
    /\ [][\A s \in TradingPairs :
            /\ (pc'[s] = "done" /\ pc[s] # "done")
                  => pc[s] = "select" /\ stopped[s]
            /\ (pc[s] = "bc_write" /\ pc'[s] # "bc_write") =>
                  /\ pc'[s] = "bc_loop"
                  /\ \A t \in TradingPairs \ {s} :
                        pc'[t] = pc[t] /\ stopped'[t] = stopped[t]
            /\ (pc[s] = "pt_body" /\ pc'[s] # "pt_body")
                  => pc'[s] = "bc_rlock"]_vars

\* a send of one instrument has failed, its simulator is back in its select,
\* and the other instrument's simulator has completed a tick since
LoopEndsOnlyOnStopWitness ==
    /\ "c2" \in closed
    /\ Subscribers[Stalled] = {}
    /\ pc[Stalled] = "select"
    /\ ~stopped[Stalled]
    /\ pc[Other] = "select"
    /\ LastPrice[Other] # Last(CandleData[Other]).Close

\* C28: the broadcast's removal of a failed conn and the AddSubscriber and
\* RemoveSubscriber calls on the same instrument never overlap: a handler is
\* inside its body only while no broadcast holds the lock; every change of
\* the subscriber set is the whole effect of one of them on the set it finds
\* (the failed conn removed, the call's conn added or removed, nothing else);
\* so a conn that the broadcast dropped is no member when the broadcast
\* ends, and an add that returns has made its conn a member and changed the
\* membership of no other conn.
SubscriberSetSerialized ==
    /\ [](\A s \in TradingPairs : Mutex[s].w # "none" => Mutex[s].r = {})
    /\ [](\A s \in TradingPairs, h \in Handlers :
            (call[h].st = "body" /\ call[h].sym = s)
                => pc[s] \notin {"bc_loop", "bc_write"})
    /\ [][\A s \in TradingPairs :
            Subscribers'[s] # Subscribers[s] =>
                \/ /\ pc[s] = "bc_write"
                   /\ Subscribers'[s] = Subscribers[s] \ {bcTarget[s]}
                   /\ bcTarget[s] \in closed'
                   /\ call' = call
                \/ \E h \in Handlers :
                      /\ BodyStep(h, "add")
                      /\ call[h].sym = s
                      /\ Subscribers'[s] = Subscribers[s] \cup {call[h].conn}
                      /\ pc' = pc
                \/ \E h \in Handlers :
                      /\ BodyStep(h, "remove")
                      /\ call[h].sym = s
                      /\ Subscribers'[s] = Subscribers[s] \ {call[h].conn}
                      /\ pc' = pc]_vars
    /\ [][\A h \in Handlers :
            BodyStep(h, "add") =>
                /\ call[h].conn \in Subscribers'[call[h].sym]
                /\ \A c \in Conns \ {call[h].conn} :
                      (c \in Subscribers'[call[h].sym])
                          = (c \in Subscribers[call[h].sym])]_vars
    /\ [](\A s \in TradingPairs :
            pc[s] \in {"bc_loop", "bc_write"}
                => Failed(s) \cap Subscribers[s] = {})

\* a broadcast has dropped the conn whose send failed and still holds the
\* shared lock, while an AddSubscriber call for another conn waits for it
SubscriberSetSerializedWitness ==
    \E s \in TradingPairs, h \in Handlers :
        /\ pc[s] = "bc_loop"
        /\ Failed(s) = {"c2"}
        /\ Subscribers[s] = {}
        /\ call[h].op = "add"
        /\ call[h].sym = s
        /\ call[h].conn = "c1"
        /\ call[h].st = "lock"
        /\ h \in Mutex[s].ww

\* the sequence q without its last entry
Front(q) == SubSeq(q, 1, Len(q) - 1)

\* C29: an entry of the history is never changed: a step other than a
\* rollover leaves a non-empty history as it is (a price tick changes the
\* simulator's current candle, a copy), and a rollover leaves it as it is or
\* appends the current candle to it, dropping at most the oldest entry.
HistoryEntriesImmutable ==
    [][\A s \in TradingPairs :
         /\ (Len(CandleData[s]) > 0 /\ ~RolloverStep(s))
               => CandleData'[s] = CandleData[s]
         /\ RolloverStep(s) =>
               \/ CandleData'[s] = CandleData[s]
               \/ /\ Len(CandleData'[s]) > 0
                  /\ Last(CandleData'[s]) = currentCandle[s]
                  /\ \/ Front(CandleData'[s]) = CandleData[s]
                     \/ /\ Len(CandleData[s]) = maxCandleCount
                        /\ Front(CandleData'[s]) = Tail(CandleData[s])]_vars

\* the first price tick has changed the current candle, which began as a
\* copy of the newest history entry, and the entry is as it was generated
HistoryEntriesImmutableWitness ==
    \E s \in TradingPairs :
        /\ pc[s] = "bc_rlock"
        /\ tickKind[s] = "price"
        /\ currentCandle[s].Time = Last(CandleData[s]).Time
        /\ currentCandle[s].Close # Last(CandleData[s]).Close
        /\ currentCandle[s].Volume > Last(CandleData[s]).Volume

\* C30: whenever the history is not empty, the timestamp of the current
\* candle (pair.LastCandle, and the simulator's currentCandle once it is
\* set) is at least the timestamp of the newest history entry.
CurrentNotOlderThanHistory ==
    \A s \in TradingPairs :
        Len(CandleData[s]) > 0 =>
            /\ LastCandle[s].Time >= Last(CandleData[s]).Time
            /\ pc[s] \notin {"new", "main_gen", "sim_check", "sim_gen", "sim_init"}
                  => currentCandle[s].Time >= Last(CandleData[s]).Time

\* the second rollover has appended the first live candle and opened the
\* candle of the next bucket
CurrentNotOlderThanHistoryWitness ==
    \E s \in TradingPairs :
        /\ pc[s] = "select"
        /\ Last(CandleData[s]).Time = FirstLiveTime
        /\ currentCandle[s].Time =
               FirstLiveTime + demoIntervalSeconds * timestampMultiplier
        /\ LastCandle[s] = currentCandle[s]

----------------------------------------------------------------------------
(* C31 - C39 *)

\* the step of s is a candle tick that begins a rollover
RolloverBegins(s) == pc[s] = "select" /\ pc'[s] = "ct_body"

\* C31: a candle tick begins a rollover only when the start of the current
\* 10-second bucket is greater than the current candle's timestamp; the
\* rollover changes the history only when the current candle's timestamp is
\* greater than the newest entry's, and then appends the current candle;
\* otherwise the history is unchanged, and in both cases a flat candle at the
\* last price is opened for the bucket and the broadcast that follows sends it.
RolloverGuards ==
    [][\A s \in TradingPairs :
         /\ RolloverBegins(s) =>
               /\ roundedTime'[s] * timestampMultiplier > currentCandle[s].Time
               /\ \E t \in ClockValues : roundedTime'[s] = RoundedTime(t)
               /\ currentCandle'[s] = currentCandle[s]
         /\ RolloverStep(s) =>
               /\ Len(CandleData[s]) > 0
               /\ roundedTime[s] * timestampMultiplier > currentCandle[s].Time
               /\ IF currentCandle[s].Time > Last(CandleData[s]).Time
                  THEN Last(CandleData'[s]) = currentCandle[s]
                  ELSE CandleData'[s] = CandleData[s]
               /\ currentCandle'[s].Time = roundedTime[s] * timestampMultiplier
               /\ Flat(currentCandle'[s], LastPrice[s])
               /\ LastCandle'[s] = currentCandle'[s]
         /\ (pc[s] = "bc_rlock" /\ tickKind[s] = "candle" /\ pc'[s] = "bc_loop")
               => update'[s].lastCandle = currentCandle[s]]_vars

\* the first rollover after a price tick found its candle no newer than the
\* newest entry: the history is as generated, the candle of the tick is gone,
\* and the flat candle of the new bucket is being sent to a subscriber
RolloverGuardsWitness ==
    \E s \in TradingPairs :
        /\ pc[s] = "bc_write"
        /\ tickKind[s] = "candle"
        /\ Len(CandleData[s]) = maxCandleCount
        /\ Last(CandleData[s]).Time < FirstLiveTime
        /\ update[s].lastCandle.Time = FirstLiveTime
        /\ Flat(update[s].lastCandle, LastPrice[s])
        /\ LastPrice[s] # Last(CandleData[s]).Close

\* the step of s is the body of a price tick (updatePriceAndCandle)
PriceTickStep(s) == pc[s] = "pt_body" /\ pc'[s] = "bc_rlock"

\* C32: after the body of a price tick the price change is
\* (LastPrice / CandleData[0].Open - 1) * 100 for the new last price and the
\* oldest history entry, the current candle's close is the new last price,
\* its high and low are the former ones widened to hold that price, and
\* pair.LastCandle is that candle; with an empty history the price change is
\* kept.
PriceTickRecomputes ==
    /\ [][\A s \in TradingPairs :
            PriceTickStep(s) =>
                /\ Len(CandleData[s]) > 0 =>
                      PriceChange'[s] =
                          PercentChange(LastPrice'[s], CandleData'[s][1].Open)
                /\ currentCandle'[s].Close = LastPrice'[s]
                /\ currentCandle'[s].High = Max(currentCandle[s].High, LastPrice'[s])
                /\ currentCandle'[s].Low = Min(currentCandle[s].Low, LastPrice'[s])
                /\ currentCandle'[s].Low <= LastPrice'[s]
                /\ LastPrice'[s] <= currentCandle'[s].High
                /\ LastCandle'[s] = currentCandle'[s]]_vars
    /\ [](\A s \in TradingPairs :
            NewPriceChange(<< >>, LastPrice[s], PriceChange[s]) = PriceChange[s])

\* a price tick after the rollover that trimmed the history: the price change
\* is the one against the second generated candle, now the oldest, and not
\* the one against the newest entry
PriceTickRecomputesWitness ==
    \E s \in TradingPairs :
        /\ pc[s] = "bc_rlock"
        /\ tickKind[s] = "price"
        /\ Last(CandleData[s]).Time = FirstLiveTime
        /\ PriceChange[s] = PercentChange(LastPrice[s], CandleData[s][1].Open)
        /\ PriceChange[s] # PercentChange(LastPrice[s], Last(CandleData[s]).Open)
        /\ currentCandle[s].Close = LastPrice[s]
        /\ currentCandle[s].Open # LastPrice[s]

\* C33: once GenerateInitialCandleData has returned, the history has exactly
\* maxCandleCount (288) entries in every state; the first rollover, whose
\* current candle has the newest entry's timestamp, leaves the history as it
\* is, and every later rollover appends the current candle and drops the
\* oldest entry.
HistoryStaysFull ==
    /\ [](\A s \in TradingPairs :
            pc[s] \notin {"new", "main_gen", "sim_gen"}
                => Len(CandleData[s]) = maxCandleCount)
    /\ [][\A s \in TradingPairs :
            RolloverStep(s) =>
                IF currentCandle[s].Time < FirstLiveTime
                THEN /\ currentCandle[s].Time = Last(CandleData[s]).Time
                     /\ CandleData'[s] = CandleData[s]
                ELSE /\ currentCandle[s].Time > Last(CandleData[s]).Time
                     /\ CandleData'[s] =
                            Append(Tail(CandleData[s]), currentCandle[s])]_vars

\* the second rollover has appended the candle of the first live bucket
\* behind the newest generated entry, and the history is full
HistoryStaysFullWitness ==
    \E s \in TradingPairs :
        /\ pc[s] = "bc_rlock"
        /\ tickKind[s] = "candle"
        /\ Len(CandleData[s]) = maxCandleCount
        /\ CandleData[s][maxCandleCount].Time = FirstLiveTime
        /\ CandleData[s][maxCandleCount - 1].Time =
               Boundary(StartNow) - minutesPerCandle * 60 * timestampMultiplier
        /\ currentCandle[s].Time > FirstLiveTime

\* the step of s is the broadcast's removal of a conn whose send failed
RemovalStep(s) == pc[s] = "bc_write" /\ Subscribers'[s] # Subscribers[s]

\* C34: the subscriber set of an instrument is read and written by its one
\* simulator inside BroadcastUpdate and by AddSubscriber and RemoveSubscriber
\* alone.  A broadcast begins only when the simulator holds no lock and has
\* no broadcast open; while it is open the simulator holds the shared lock,
\* no writer is inside and no handler is in its body; at the removal of a
\* failed conn every other holder of the shared lock is a GetCandleData
\* caller, which holds a copy of the history and takes no step with it.
OneBroadcastPerInstrument ==
    /\ [](\A s \in TradingPairs :
            pc[s] \in {"bc_loop", "bc_write"} =>
                /\ "sim" \in Mutex[s].r
                /\ Mutex[s].w = "none"
                /\ \A h \in Handlers :
                      call[h].sym = s => call[h].st = "lock")
    /\ [](\A s \in TradingPairs :
            pc[s] \notin {"bc_loop", "bc_write"} =>
                /\ "sim" \notin Mutex[s].r
                /\ update[s] = NoUpdate
                /\ bcTarget[s] = NoConn)
    /\ [][\A s \in TradingPairs :
            /\ (pc'[s] = "bc_loop" /\ pc[s] # "bc_loop")
                  => pc[s] \in {"bc_rlock", "bc_write"}
            /\ RemovalStep(s) =>
                  /\ Subscribers'[s] = Subscribers[s] \ {bcTarget[s]}
                  /\ Mutex' = Mutex
                  /\ call' = call
                  /\ request' = request
                  /\ result' = result
                  /\ \A g \in Mutex[s].r \ {"sim"} :
                        /\ g \in Callers
                        /\ request[g] = [sym |-> s, st |-> "copied"]
                        /\ result[g] = CandleData[s]]_vars

\* the broadcast has removed the conn whose send failed while a
\* GetCandleData caller held the shared lock of the same instrument
OneBroadcastPerInstrumentWitness ==
    \E s \in TradingPairs, g \in Callers :
        /\ pc[s] = "bc_loop"
        /\ Failed(s) # {}
        /\ Subscribers[s] = {}
        /\ Mutex[s].r = {"sim", g}
        /\ request[g] = [sym |-> s, st |-> "copied"]

\* the step of s is the range loop producing a conn and calling WriteJSON
SendStep(s) == pc[s] = "bc_loop" /\ pc'[s] = "bc_write"

\* C35: every conn a broadcast sends to is a member of the instrument's
\* subscriber set when the send begins and while it is in progress, and so
\* is every conn the loop has yet to reach; a conn closed by a failed send
\* and a conn removed by RemoveSubscriber are no members, and a conn becomes
\* a member only by AddSubscriber.
SendsOnlyToMembers ==
    /\ [](\A s \in TradingPairs :
            /\ pc[s] = "bc_write" => bcTarget[s] \in Subscribers[s]
            /\ pc[s] \in {"bc_loop", "bc_write"}
                  => bcPending[s] \subseteq Subscribers[s])
    /\ [][\A s \in TradingPairs :
            /\ SendStep(s) =>
                  /\ bcTarget'[s] \in Subscribers[s]
                  /\ bcTarget'[s] \notin Sent(s)
            /\ \A c \in Conns :
                  /\ (c \in closed' /\ c \notin closed)
                        => c \notin Subscribers'[s]
                  /\ (c \in Subscribers'[s] /\ c \notin Subscribers[s]) =>
                        \E h \in Handlers :
                            /\ BodyStep(h, "add")
                            /\ call[h].sym = s
                            /\ call[h].conn = c
            /\ \A h \in Handlers :
                  (BodyStep(h, "remove") /\ call[h].sym = s)
                      => call[h].conn \notin Subscribers'[s]]_vars

\* a broadcast that began after a failed send had closed and removed conn c2
\* is sending to c1, the only member
SendsOnlyToMembersWitness ==
    \E s \in TradingPairs :
        /\ pc[s] = "bc_write"
        /\ bcTarget[s] = "c1"
        /\ "c2" \in closed
        /\ bcStart[s] = {"c1"}
        /\ Subscribers[s] = {"c1"}

\* the simulator of s has set its current candle (lines 192-214 are done)
CurrentCandleSet(s) ==
    pc[s] \notin {"new", "main_gen", "sim_check", "sim_gen", "sim_init"}

\* C36: once set, the timestamp of the simulator's current candle never
\* decreases; it changes at rollovers only, and there it grows; after a
\* rollover no clock reading at or before the reading that caused it (the
\* clock stands still or is set back) begins another rollover.
CandleTimeMonotonic ==
    [][\A s \in TradingPairs :
         /\ CurrentCandleSet(s) =>
               /\ currentCandle'[s].Time >= currentCandle[s].Time
               /\ currentCandle'[s].Time # currentCandle[s].Time
                     => RolloverStep(s)
         /\ RolloverStep(s) =>
               /\ currentCandle'[s].Time > currentCandle[s].Time
               /\ currentCandle'[s].Time = roundedTime[s] * timestampMultiplier
               /\ \A t \in ClockValues :
                     RoundedTime(t) <= roundedTime[s]
                         => ~NeedNewCandle(RoundedTime(t), currentCandle'[s])
         /\ RolloverBegins(s) =>
               NeedNewCandle(roundedTime'[s], currentCandle[s])
         /\ (pc[s] = "select" /\ pc'[s] = "select")
               => currentCandle'[s] = currentCandle[s]]_vars

\* the simulator waits in its select with the candle of the second live
\* bucket, after two rollovers, and the clock may read a time of the first
\* bucket again
CandleTimeMonotonicWitness ==
    \E s \in TradingPairs :
        /\ pc[s] = "select"
        /\ Last(CandleData[s]).Time = FirstLiveTime
        /\ currentCandle[s].Time > FirstLiveTime
        /\ \E t \in ClockValues :
              /\ RoundedTime(t) * timestampMultiplier < currentCandle[s].Time
              /\ ~NeedNewCandle(RoundedTime(t), currentCandle[s])

\* the step is taken by handler goroutine h: its call, its result or its
\* place among the pending writers changes
HandlerMoves(h) ==
    \/ call'[h] # call[h]
    \/ ret'[h] # ret[h]
    \/ \E s \in Symbols : (h \in Mutex'[s].ww) # (h \in Mutex[s].ww)

\* the data of the pair and of its simulator, the subscriber set apart
PairData(s) == << LastPrice[s], PriceChange[s], CandleData[s], LastCandle[s],
                  currentCandle[s], pc[s], update[s] >>

\* C37: the body of a price tick leaves the history, the current candle's
\* timestamp and open and the subscriber sets as they are; the body of a
\* rollover leaves the last price, the price change and the subscriber sets
\* as they are; no step of a simulator adds a conn to a subscriber set; a
\* step of AddSubscriber or RemoveSubscriber changes no data of any pair, no
\* closed conn, and no subscriber set but the one of its symbol.
TickFrames ==
    [][/\ \A s \in TradingPairs :
            /\ PriceTickStep(s) =>
                  /\ CandleData'[s] = CandleData[s]
                  /\ currentCandle'[s].Time = currentCandle[s].Time
                  /\ currentCandle'[s].Open = currentCandle[s].Open
                  /\ Subscribers' = Subscribers
            /\ RolloverStep(s) =>
                  /\ LastPrice'[s] = LastPrice[s]
                  /\ PriceChange'[s] = PriceChange[s]
                  /\ Subscribers' = Subscribers
            /\ pc'[s] # pc[s] => Subscribers'[s] \subseteq Subscribers[s]
       /\ \A h \in Handlers :
            HandlerMoves(h) =>
                /\ \A s \in Symbols :
                      /\ PairData(s)' = PairData(s)
                      /\ s # call[h].sym => Subscribers'[s] = Subscribers[s]
                /\ closed' = closed
                /\ TradingPairs' = TradingPairs]_vars

\* with a conn subscribed, a price tick has moved the price of a candle that
\* a rollover had opened: the candle keeps its open and its timestamp
TickFramesWitness ==
    \E s \in TradingPairs :
        /\ pc[s] = "bc_rlock"
        /\ tickKind[s] = "price"
        /\ Subscribers[s] # {}
        /\ currentCandle[s].Time = FirstLiveTime
        /\ currentCandle[s].Open = Last(CandleData[s]).Close
        /\ currentCandle[s].Close # currentCandle[s].Open

\* C38: a GetCandleData call and a GET /api/pairs request that are in
\* progress while an instrument's broadcast is inside a send and a
\* subscribe or unsubscribe call waits for that instrument's lock complete.
ReadersPassBlockedBroadcast ==
    \A g \in Callers :
        (/\ request[g].st # "idle"
         /\ \E s \in TradingPairs :
               /\ pc[s] = "bc_write"
               /\ "sim" \in Mutex[s].r
               /\ Mutex[s].ww # {})
            ~> (request[g].st = "idle")

\* goroutine id holds the lock of s, in either mode
Holds(id, s) == Mutex[s].w = id \/ id \in Mutex[s].r

\* the symbols whose lock the handler or caller goroutine id holds
HeldBy(id) == {s \in Symbols : Holds(id, s)}

\* C39: no goroutine takes a lock it holds, none holds the locks of two
\* instruments, and a goroutine that is about to take a lock holds none;
\* when every send returns, whatever has begun ends: again and again no
\* AddSubscriber, RemoveSubscriber, GetCandleData or GET /api/pairs call is
\* in progress and every simulator waits in its select, so no interleaving
\* ends in a deadlock.
NoLockCycle ==
    /\ [](\A g \in Handlers \cup Callers : Cardinality(HeldBy(g)) <= 1)
    /\ [](\A s \in Symbols :
            /\ Mutex[s].w # "none" => Mutex[s].r = {}
            /\ pc[s] \in {"sim_check", "sim_init", "select", "bc_rlock"}
                  => ~Holds("sim", s)
            /\ \A h \in Handlers :
                  call[h].st = "lock" => HeldBy(h) = {}
            /\ \A g \in Callers :
                  request[g].st \in {"rlock", "list", "list_rlock"}
                      => HeldBy(g) = {})
    /\ [][\A s \in Symbols, id \in Handlers \cup Callers \cup {"sim"} :
            /\ (id \in Mutex'[s].r /\ id \notin Mutex[s].r)
                  => Mutex[s].w # id
            /\ (Mutex'[s].w = id /\ Mutex[s].w # id)
                  => id \notin Mutex[s].r]_vars
    /\ []<>(/\ \A h \in Handlers : call[h] = NoCall
            /\ \A g \in Callers : request[g].st = "idle"
            /\ \A s \in TradingPairs : pc[s] = "select")

\* a GET /api/pairs request that has listed one instrument holds the shared
\* lock of the other together with its broadcast, which is inside a send
NoLockCycleWitness ==
    \E g \in Callers, s \in TradingPairs :
        /\ request[g] = [sym |-> s, st |-> "list_runlock"]
        /\ Len(result[g]) = 2
        /\ pc[s] = "bc_write"
        /\ Mutex[s].r = {"sim", g}
        /\ HeldBy(g) = {s}

====
